---- MODULE Spec2Model ----
(***************************************************************************)
(* Schema differ of the server (SchemaService.diff and its helpers).       *)
(*                                                                         *)
(* A run draws a desired schema (source), an observed schema (target) and  *)
(* the options of the call, computes the change list with diff, applies    *)
(* the changes one after another to a copy of the observed schema, and     *)
(* finally diffs the desired schema against the result.                    *)
(*                                                                         *)
(* The DDL emitter (SchemaService.diffToSql) is a function of the change   *)
(* list alone: SqlSpec draws change lists and emits their statements.      *)
(*                                                                         *)
(* The metadata compiler (the decorators and getDynamicSchema) has its own *)
(* run, CompilerSpec: decorators register declarations and                 *)
(* getDynamicSchema is called, in any order.                               *)
(*                                                                         *)
(* Optional values (a `?:` field, a map lookup) are sequences of length 0  *)
(* or 1: None is `undefined`, Some(x) is the value x.                      *)
(***************************************************************************)
EXTENDS Naturals, Sequences, FiniteSets, TLC

VARIABLES source, target, options, pc, items, observed, applied, rediff, sql,
          registry, initialized, dynamicSchema, returned,
          catalog, settled, loaded

\* the state of a run of the differ and of the emitter
differVars == <<source, target, options, pc, items, observed, applied, rediff, sql>>

\* the module state of the metadata compiler
compilerVars == <<registry, initialized, dynamicSchema, returned>>

\* the state of one call of loadSchema: the rows the database holds, the
\* catalog queries that have completed (in completion order), the outcome
loaderVars == <<catalog, settled, loaded>>

vars == <<source, target, options, pc, items, observed, applied, rediff, sql,
          registry, initialized, dynamicSchema, returned,
          catalog, settled, loaded>>

----------------------------------------------------------------------------
(* Bounds of the model. *)

\* largest number of tables of a schema in the structural inputs
MaxTables == 2
\* largest number of column names in a PRIMARY_KEY / UNIQUE column list
MaxKeyLen == 2

----------------------------------------------------------------------------
(* Generic helpers. *)

None == <<>>
Some(x) == <<x>>

Range(s) == {s[i] : i \in 1..Len(s)}

RECURSIVE Flatten(_)
Flatten(ss) == IF ss = <<>> THEN <<>> ELSE Head(ss) \o Flatten(Tail(ss))

RECURSIVE Dedupe(_)
\* the distinct entries of s, each at the place of its first occurrence
Dedupe(s) ==
  IF s = <<>> THEN <<>>
  ELSE LET r == Dedupe(SubSeq(s, 1, Len(s) - 1))
           x == s[Len(s)]
       IN IF x \in Range(r) THEN r ELSE Append(r, x)

MaxOf(S) == CHOOSE x \in S : \A y \in S : y <= x

----------------------------------------------------------------------------
(* src/enum DatabaseConstraintType, in declaration order (Object.values). *)

PRIMARY_KEY == "PRIMARY_KEY"
FOREIGN_KEY == "FOREIGN_KEY"
UNIQUE == "UNIQUE"
CHECK == "CHECK"

DatabaseConstraintType == <<PRIMARY_KEY, FOREIGN_KEY, UNIQUE, CHECK>>

----------------------------------------------------------------------------
(* Name-keyed maps: Object.fromEntries(list.map(x => [x.name, x])) and the *)
(* key set new Set([...Object.keys(sourceMap), ...Object.keys(targetMap)]).*)

\* map[key]: the last entry of that name wins, undefined when there is none
fromEntries(list, key) ==
  LET at == {i \in 1..Len(list) : list[i].name = key}
  IN IF at = {} THEN None ELSE Some(list[MaxOf(at)])

\* keys of the source map in insertion order, then the new keys of the target map
unionKeys(sources, targets) ==
  Dedupe([i \in 1..Len(sources) |-> sources[i].name]
         \o [i \in 1..Len(targets) |-> targets[i].name])

\* items.filter((item) => item.type === type)
filterType(list, type) == SelectSeq(list, LAMBDA item : item.type = type)

----------------------------------------------------------------------------
(* Column-list comparison. *)

\* src/utils/set setIsEqual: the two sets have the same members
setIsEqual(a, b) == a = b

\* variant: the lists compared entry by entry, order included
haveEqualColumns_ordered(sourceColumns, targetColumns) ==
  (IF sourceColumns = None THEN <<>> ELSE sourceColumns[1])
    = (IF targetColumns = None THEN <<>> ELSE targetColumns[1])

haveEqualColumns(sourceColumns, targetColumns) ==
  setIsEqual(Range(IF sourceColumns = None THEN <<>> ELSE sourceColumns[1]),
             Range(IF targetColumns = None THEN <<>> ELSE targetColumns[1]))

----------------------------------------------------------------------------
(* Drop and recreate. *)

\* variant: the create pushed before the delete
dropAndRecreateColumn_createFirst(s, t) ==
  << [type |-> "column.create", column |-> s],
     [type |-> "column.delete", tableName |-> t.tableName, columnName |-> t.name] >>

dropAndRecreateColumn(s, t) ==
  << [type |-> "column.delete", tableName |-> t.tableName, columnName |-> t.name],
     [type |-> "column.create", column |-> s] >>

dropAndRecreateConstraint(s, t) ==
  << [type |-> "constraint.delete", tableName |-> t.tableName, constraintName |-> t.name],
     [type |-> "constraint.create", constraint |-> s] >>

dropAndRecreateIndex(s, t) ==
  << [type |-> "index.delete", indexName |-> t.name],
     [type |-> "index.create", index |-> s] >>

----------------------------------------------------------------------------
(* Columns. *)

\* variant: a type change reported as a column.update
diffColumn_updateOnTypeChange(src, tgt) ==
  IF src # None /\ tgt = None
    THEN << [type |-> "column.create", column |-> src[1]] >>
  ELSE IF src = None /\ tgt # None
    THEN << [type |-> "column.delete", tableName |-> tgt[1].tableName,
             columnName |-> tgt[1].name] >>
  ELSE IF src = None \/ tgt = None
    THEN <<>>
  ELSE IF src[1] # tgt[1]
    THEN << [type |-> "column.update", source |-> src[1], target |-> tgt[1]] >>
  ELSE <<>>

\* variant: isChanged without the isArray comparison
diffColumn_noArrayCheck(src, tgt) ==
  IF src # None /\ tgt = None
    THEN << [type |-> "column.create", column |-> src[1]] >>
  ELSE IF src = None /\ tgt # None
    THEN << [type |-> "column.delete", tableName |-> tgt[1].tableName,
             columnName |-> tgt[1].name] >>
  ELSE IF src = None \/ tgt = None
    THEN <<>>
  ELSE IF src[1].type # tgt[1].type
    THEN dropAndRecreateColumn(src[1], tgt[1])
  ELSE IF \/ src[1].nullable # tgt[1].nullable
          \/ src[1].primary # tgt[1].primary
          \/ src[1].default # tgt[1].default
    THEN << [type |-> "column.update", source |-> src[1], target |-> tgt[1]] >>
  ELSE <<>>

diffColumn(src, tgt) ==
  IF src # None /\ tgt = None
    THEN << [type |-> "column.create", column |-> src[1]] >>
  ELSE IF src = None /\ tgt # None
    THEN << [type |-> "column.delete", tableName |-> tgt[1].tableName,
             columnName |-> tgt[1].name] >>
  ELSE IF src = None \/ tgt = None
    THEN <<>>
  ELSE IF src[1].type # tgt[1].type
    THEN dropAndRecreateColumn(src[1], tgt[1])
  ELSE IF \/ src[1].type # tgt[1].type
          \/ src[1].nullable # tgt[1].nullable
          \/ src[1].primary # tgt[1].primary
          \/ src[1].default # tgt[1].default
          \/ src[1].isArray # tgt[1].isArray
    THEN << [type |-> "column.update", source |-> src[1], target |-> tgt[1]] >>
  ELSE <<>>

diffColumns(sources, targets) ==
  LET keys == unionKeys(sources, targets)
  IN Flatten([i \in 1..Len(keys) |->
                diffColumn(fromEntries(sources, keys[i]), fromEntries(targets, keys[i]))])

----------------------------------------------------------------------------
(* Constraints. *)

\* variant: the negation of haveEqualColumns dropped
diffPrimaryKeyConstraint_missingNot(s, t) ==
  IF haveEqualColumns(Some(s.columnNames), Some(t.columnNames)) \/ s.tableName # t.tableName
    THEN dropAndRecreateConstraint(s, t)
    ELSE <<>>

diffPrimaryKeyConstraint(s, t) ==
  IF ~haveEqualColumns(Some(s.columnNames), Some(t.columnNames)) \/ s.tableName # t.tableName
    THEN dropAndRecreateConstraint(s, t)
    ELSE <<>>

diffForeignKeyConstraint(s, t) ==
  IF \/ ~haveEqualColumns(Some(s.columnNames), Some(t.columnNames))
     \/ ~haveEqualColumns(Some(s.referenceColumnNames), Some(t.referenceColumnNames))
     \/ s.tableName # t.tableName
     \/ s.referenceTableName # t.referenceTableName
     \/ s.onDelete # t.onDelete
     \/ s.onUpdate # t.onUpdate
    THEN dropAndRecreateConstraint(s, t)
    ELSE <<>>

\* variant: tableName compared as well
diffUniqueConstraint_withTable(s, t) ==
  IF haveEqualColumns(Some(s.columnNames), Some(t.columnNames)) /\ s.tableName = t.tableName
    THEN <<>>
    ELSE dropAndRecreateConstraint(s, t)

diffUniqueConstraint(s, t) ==
  IF haveEqualColumns(Some(s.columnNames), Some(t.columnNames))
    THEN <<>>
    ELSE dropAndRecreateConstraint(s, t)

diffCheckConstraint(s, t) ==
  IF s.expression = t.expression THEN <<>> ELSE dropAndRecreateConstraint(s, t)

diffConstraint(src, tgt) ==
  IF src # None /\ tgt = None
    THEN << [type |-> "constraint.create", constraint |-> src[1]] >>
  ELSE IF src = None /\ tgt # None
    THEN << [type |-> "constraint.delete", tableName |-> tgt[1].tableName,
             constraintName |-> tgt[1].name] >>
  ELSE IF src = None \/ tgt = None
    THEN <<>>
  ELSE IF src[1].type = PRIMARY_KEY THEN diffPrimaryKeyConstraint(src[1], tgt[1])
  ELSE IF src[1].type = FOREIGN_KEY THEN diffForeignKeyConstraint(src[1], tgt[1])
  ELSE IF src[1].type = UNIQUE THEN diffUniqueConstraint(src[1], tgt[1])
  ELSE IF src[1].type = CHECK THEN diffCheckConstraint(src[1], tgt[1])
  ELSE dropAndRecreateConstraint(src[1], tgt[1])

diffConstraints(sources, targets) ==
  Flatten([k \in 1..Len(DatabaseConstraintType) |->
    LET type == DatabaseConstraintType[k]
        ss == filterType(sources, type)
        ts == filterType(targets, type)
        keys == unionKeys(ss, ts)
    IN Flatten([i \in 1..Len(keys) |->
                  diffConstraint(fromEntries(ss, keys[i]), fromEntries(ts, keys[i]))])])

----------------------------------------------------------------------------
(* Indexes. *)

\* variant: the access method is compared too
diffIndex_withUsing(src, tgt) ==
  IF src # None /\ tgt = None
    THEN << [type |-> "index.create", index |-> src[1]] >>
  ELSE IF src = None /\ tgt # None
    THEN << [type |-> "index.delete", indexName |-> tgt[1].name] >>
  ELSE IF tgt = None \/ src = None
    THEN <<>>
  ELSE IF \/ ~haveEqualColumns(src[1].columnNames, tgt[1].columnNames)
          \/ src[1].expression # tgt[1].expression
          \/ src[1].unique # tgt[1].unique
          \/ src[1].where # tgt[1].where
          \/ src[1].using # tgt[1].using
    THEN dropAndRecreateIndex(src[1], tgt[1])
  ELSE <<>>

diffIndex(src, tgt) ==
  IF src # None /\ tgt = None
    THEN << [type |-> "index.create", index |-> src[1]] >>
  ELSE IF src = None /\ tgt # None
    THEN << [type |-> "index.delete", indexName |-> tgt[1].name] >>
  ELSE IF tgt = None \/ src = None
    THEN <<>>
  ELSE IF \/ ~haveEqualColumns(src[1].columnNames, tgt[1].columnNames)
          \/ src[1].expression # tgt[1].expression
          \/ src[1].unique # tgt[1].unique
          \/ src[1].where # tgt[1].where
    THEN dropAndRecreateIndex(src[1], tgt[1])
  ELSE <<>>

diffIndexes(sources, targets) ==
  LET keys == unionKeys(sources, targets)
  IN Flatten([i \in 1..Len(keys) |->
                diffIndex(fromEntries(sources, keys[i]), fromEntries(targets, keys[i]))])

----------------------------------------------------------------------------
(* Tables. *)

\* variant: a new table's constraints pushed before its table.create
diffTable_constraintsFirst(src, tgt) ==
  IF src # None /\ tgt = None
    THEN diffConstraints(src[1].constraints, <<>>)
         \o << [type |-> "table.create", tableName |-> src[1].name,
                columns |-> src[1].columns] >>
         \o diffIndexes(src[1].indexes, <<>>)
  ELSE IF src = None /\ tgt # None
    THEN << [type |-> "table.delete", tableName |-> tgt[1].name] >>
  ELSE IF src = None \/ tgt = None
    THEN <<>>
  ELSE diffColumns(src[1].columns, tgt[1].columns)
       \o diffConstraints(src[1].constraints, tgt[1].constraints)
       \o diffIndexes(src[1].indexes, tgt[1].indexes)

diffTable(src, tgt) ==
  IF src # None /\ tgt = None
    THEN << [type |-> "table.create", tableName |-> src[1].name,
             columns |-> src[1].columns] >>
         \o diffIndexes(src[1].indexes, <<>>)
         \o diffConstraints(src[1].constraints, <<>>)
  ELSE IF src = None /\ tgt # None
    THEN << [type |-> "table.delete", tableName |-> tgt[1].name] >>
  ELSE IF src = None \/ tgt = None
    THEN <<>>
  ELSE diffColumns(src[1].columns, tgt[1].columns)
       \o diffConstraints(src[1].constraints, tgt[1].constraints)
       \o diffIndexes(src[1].indexes, tgt[1].indexes)

diffTables(sources, targets, ignoreExtraTables) ==
  LET keys == unionKeys(sources, targets)
  IN Flatten([i \in 1..Len(keys) |->
       IF ignoreExtraTables /\ fromEntries(sources, keys[i]) = None
         THEN <<>>
         ELSE diffTable(fromEntries(sources, keys[i]), fromEntries(targets, keys[i]))])

\* variant: the omitted option read as false
diff_defaultFalse(src, tgt, opts) ==
  diffTables(src.tables, tgt.tables,
             IF opts.ignoreExtraTables = None THEN FALSE ELSE opts.ignoreExtraTables[1])

\* opts.ignoreExtraTables is None when the option is omitted (?? true)
diff(src, tgt, opts) ==
  diffTables(src.tables, tgt.tables,
             IF opts.ignoreExtraTables = None THEN TRUE ELSE opts.ignoreExtraTables[1])

----------------------------------------------------------------------------
(* The DDL emitter.  A statement is a string; a template literal is the    *)
(* concatenation of its pieces.                                            *)

\* the characters of identifiers in UTF-16 code-unit order
CodeUnits == "0123456789ABCDEFGHIJKLMNOPQRSTUVWXYZ_abcdefghijklmnopqrstuvwxyz"

charAt(s, i) == SubSeq(s, i, i)

\* the place of each character in that order
CodeUnitOf ==
  [ch \in {charAt(CodeUnits, i) : i \in 1..Len(CodeUnits)} |->
     CHOOSE i \in 1..Len(CodeUnits) : charAt(CodeUnits, i) = ch]

codeUnit(ch) == CodeUnitOf[ch]

\* a < b as Array.prototype.toSorted compares two strings without a comparator
RECURSIVE precedes(_, _)
precedes(a, b) ==
  IF b = "" THEN FALSE
  ELSE IF a = "" THEN TRUE
  ELSE IF charAt(a, 1) # charAt(b, 1)
    THEN codeUnit(charAt(a, 1)) < codeUnit(charAt(b, 1))
  ELSE precedes(SubSeq(a, 2, Len(a)), SubSeq(b, 2, Len(b)))

\* list.toSorted(): ascending, equal elements in their given order
RECURSIVE toSorted(_)
toSorted(list) ==
  IF list = <<>> THEN <<>>
  ELSE LET i == CHOOSE k \in 1..Len(list) :
                  /\ \A j \in 1..Len(list) : ~precedes(list[j], list[k])
                  /\ \A j \in 1..(k - 1) : precedes(list[k], list[j])
       IN <<list[i]>> \o toSorted(SubSeq(list, 1, i - 1) \o SubSeq(list, i + 1, Len(list)))

\* parts.join(sep)
RECURSIVE join(_, _)
join(parts, sep) ==
  IF parts = <<>> THEN ""
  ELSE IF Len(parts) = 1 THEN parts[1]
  ELSE parts[1] \o sep \o join(Tail(parts), sep)

\* an optional string used as a condition: undefined and '' are falsy
truthy(o) == o # None /\ o[1] # ""

quoted(name) == "\"" \o name \o "\""

\* variant: the names keep their given order
asColumnsNames_unsorted(columns) ==
  join([i \in 1..Len(columns) |-> quoted(columns[i])], ", ")

asColumnsNames(columns) ==
  LET sorted == toSorted(columns)
  IN join([i \in 1..Len(sorted) |-> quoted(sorted[i])], ", ")

withNull(column) == IF column.nullable THEN "" ELSE " NOT NULL"

withDefault(column) ==
  IF truthy(column.default) THEN " DEFAULT " \o column.default[1] ELSE ""

\* variant: ON UPDATE comes first
withAction_updateFirst(constraint) ==
  (IF truthy(constraint.onUpdate) THEN " ON UPDATE " \o constraint.onUpdate[1] ELSE "")
    \o (IF truthy(constraint.onDelete) THEN " ON DELETE " \o constraint.onDelete[1] ELSE "")

withAction(constraint) ==
  (IF truthy(constraint.onDelete) THEN " ON DELETE " \o constraint.onDelete[1] ELSE "")
    \o (IF truthy(constraint.onUpdate) THEN " ON UPDATE " \o constraint.onUpdate[1] ELSE "")

\* the result is the list of statements of the constraint: one, or none
asConstraintSql(constraint) ==
  LET base == "ALTER TABLE " \o quoted(constraint.tableName)
                \o " ADD CONSTRAINT " \o quoted(constraint.name)
  IN CASE constraint.type = PRIMARY_KEY ->
            << base \o " PRIMARY KEY (" \o asColumnsNames(constraint.columnNames) \o ");" >>
       [] constraint.type = FOREIGN_KEY ->
            << base \o " FOREIGN KEY (" \o asColumnsNames(constraint.columnNames)
                 \o ") REFERENCES " \o quoted(constraint.referenceTableName)
                 \o " (" \o asColumnsNames(constraint.referenceColumnNames) \o ")"
                 \o withAction(constraint) \o ";" >>
       [] constraint.type = UNIQUE ->
            << base \o " UNIQUE (" \o asColumnsNames(constraint.columnNames) \o ");" >>
       [] constraint.type = CHECK ->
            << base \o " CHECK (" \o constraint.expression \o ");" >>
       [] OTHER -> <<>>

\* `"name" type[ NOT NULL][ DEFAULT default]` of one column
asColumnSql(column) ==
  quoted(column.name) \o " " \o column.type \o withNull(column) \o withDefault(column)

\* case 'table.create'
asTableCreateSql(item) ==
  LET columns == [i \in 1..Len(item.columns) |-> asColumnSql(item.columns[i])]
  IN << "CREATE TABLE " \o quoted(item.tableName) \o " (" \o join(columns, ", ") \o ");" >>

\* case 'column.create'
asColumnCreateSql(item) ==
  << "ALTER TABLE " \o quoted(item.column.tableName) \o " ADD "
       \o asColumnSql(item.column) \o ";" >>

\* variant: a column.update without a nullability change also sets NOT NULL
asColumnUpdateSql_always(item) ==
  IF item.source.nullable
    THEN << "ALTER TABLE " \o quoted(item.source.tableName) \o " ALTER COLUMN "
              \o quoted(item.source.name) \o " DROP NOT NULL;" >>
    ELSE << "ALTER TABLE " \o quoted(item.source.tableName) \o " ALTER COLUMN "
              \o quoted(item.source.name) \o " SET NOT NULL;" >>

\* case 'column.update'
asColumnUpdateSql(item) ==
  IF item.source.nullable # item.target.nullable
    THEN IF item.source.nullable
           THEN << "ALTER TABLE " \o quoted(item.source.tableName) \o " ALTER COLUMN "
                     \o quoted(item.source.name) \o " DROP NOT NULL;" >>
           ELSE << "ALTER TABLE " \o quoted(item.source.tableName) \o " ALTER COLUMN "
                     \o quoted(item.source.name) \o " SET NOT NULL;" >>
    ELSE <<>>

\* variant: the statement is closed like the others
asIndexCreateSql_terminated(item) ==
  LET index == item.index
  IN << "CREATE" \o (IF index.unique THEN " UNIQUE" ELSE "")
          \o " INDEX " \o quoted(index.name) \o " ON " \o quoted(index.tableName)
          \o (IF index.columnNames # None
                THEN " (" \o asColumnsNames(index.columnNames[1]) \o ")" ELSE "")
          \o (IF truthy(index.using) THEN " USING " \o index.using[1] ELSE "")
          \o (IF truthy(index.expression) THEN " (" \o index.expression[1] \o ")" ELSE "")
          \o (IF truthy(index.where) THEN " WHERE " \o index.where[1] ELSE "")
          \o ";" >>

\* case 'index.create'
asIndexCreateSql(item) ==
  LET index == item.index
  IN << "CREATE" \o (IF index.unique THEN " UNIQUE" ELSE "")
          \o " INDEX " \o quoted(index.name) \o " ON " \o quoted(index.tableName)
          \o (IF index.columnNames # None
                THEN " (" \o asColumnsNames(index.columnNames[1]) \o ")" ELSE "")
          \o (IF truthy(index.using) THEN " USING " \o index.using[1] ELSE "")
          \o (IF truthy(index.expression) THEN " (" \o index.expression[1] \o ")" ELSE "")
          \o (IF truthy(index.where) THEN " WHERE " \o index.where[1] ELSE "") >>

\* the statements of one change: a statement is returned as a list of one
asSql(item) ==
  CASE item.type = "table.create" -> asTableCreateSql(item)
    [] item.type = "table.delete" -> << "DROP TABLE " \o quoted(item.tableName) \o ";" >>
    [] item.type = "column.create" -> asColumnCreateSql(item)
    [] item.type = "column.update" -> asColumnUpdateSql(item)
    [] item.type = "column.delete" ->
         << "ALTER TABLE " \o quoted(item.tableName) \o " DROP COLUMN "
              \o quoted(item.columnName) \o ";" >>
    [] item.type = "constraint.create" -> asConstraintSql(item.constraint)
    [] item.type = "constraint.delete" ->
         << "ALTER TABLE " \o quoted(item.tableName) \o " DROP CONSTRAINT "
              \o quoted(item.constraintName) \o ";" >>
    [] item.type = "index.create" -> asIndexCreateSql(item)
    [] item.type = "index.delete" -> << "DROP INDEX " \o quoted(item.indexName) \o ";" >>
    [] OTHER -> <<>>

\* variant: the changes are taken last to first
diffToSql_reversed(changes) ==
  Flatten([i \in 1..Len(changes) |-> asSql(changes[Len(changes) + 1 - i])])

diffToSql(changes) == Flatten([i \in 1..Len(changes) |-> asSql(changes[i])])

----------------------------------------------------------------------------
(* The catalog introspector (SchemaService.loadSchema): string helpers.    *)

\* the first position at or after `from` where the character ch stands, or 0
indexOf(s, ch, from) ==
  IF \E i \in from..Len(s) : charAt(s, i) = ch
    THEN CHOOSE i \in from..Len(s) :
           charAt(s, i) = ch /\ \A j \in from..(i - 1) : charAt(s, j) # ch
    ELSE 0

\* s.match(/\((?<expression>[^)]+)\)/)?.groups?.expression: the text between
\* the first `(` that is followed by at least one character other than `)`
\* and the next `)`; None when nothing matches
matchParenthesised(s) ==
  LET starts == {i \in 1..Len(s) :
                   /\ charAt(s, i) = "("
                   /\ i < Len(s) /\ charAt(s, i + 1) # ")"
                   /\ indexOf(s, ")", i + 1) # 0}
  IN IF starts = {} THEN None
     ELSE LET i == CHOOSE k \in starts : \A m \in starts : k <= m
          IN Some(SubSeq(s, i + 1, indexOf(s, ")", i + 1) - 1))

\* s.split(sep), sep one character
RECURSIVE split(_, _)
split(s, sep) ==
  LET i == indexOf(s, sep, 1)
  IN IF i = 0 THEN <<s>>
     ELSE <<SubSeq(s, 1, i - 1)>> \o split(SubSeq(s, i + 1, Len(s)), sep)

\* s.replaceAll(ch, ''), ch one character
RECURSIVE removeAll(_, _)
removeAll(s, ch) ==
  IF s = "" THEN ""
  ELSE (IF charAt(s, 1) = ch THEN "" ELSE charAt(s, 1))
         \o removeAll(SubSeq(s, 2, Len(s)), ch)

\* s.trim(), the white space being blanks
RECURSIVE trim(_)
trim(s) ==
  IF s = "" THEN ""
  ELSE IF charAt(s, 1) = " " THEN trim(SubSeq(s, 2, Len(s)))
  ELSE IF charAt(s, Len(s)) = " " THEN trim(SubSeq(s, 1, Len(s) - 1))
  ELSE s

\* s.replace(pattern, ''), pattern a string: its first occurrence is removed
removeFirst(s, pattern) ==
  LET n == Len(pattern)
      hits == {i \in 1..(Len(s) + 1 - n) : SubSeq(s, i, i + n - 1) = pattern}
  IN IF hits = {} THEN s
     ELSE LET i == CHOOSE k \in hits : \A m \in hits : k <= m
          IN SubSeq(s, 1, i - 1) \o SubSeq(s, i + n, Len(s))

\* the column names of a UNIQUE constraint's definition text
parseColumnNames(expression) ==
  LET group == matchParenthesised(expression)
  IN IF group = None THEN None
     ELSE LET parts == split(group[1], ",")
          IN Some([i \in 1..Len(parts) |-> trim(removeAll(parts[i], "\""))])

----------------------------------------------------------------------------
(* SchemaService.loadSchema.  A catalog row is a record with the columns   *)
(* its query selects, a null being None.  tablesMap is the list of the     *)
(* tables in insertion order, which is the order Object.values gives.      *)

asDatabaseAction(action) ==
  CASE action = Some("a") -> "NO ACTION"
    [] action = Some("c") -> "CASCADE"
    [] action = Some("r") -> "RESTRICT"
    [] action = Some("n") -> "SET NULL"
    [] action = Some("d") -> "SET DEFAULT"
    [] OTHER -> "NO ACTION"

\* options.schemaName || 'public'
schemaNameOf(requested) == IF truthy(requested) THEN requested[1] ELSE "public"

\* the five catalog queries, in the order loadSchema issues them
Queries == <<"getTables", "getTableColumns", "getTableIndexes",
             "getTableConstraints", "getUserDefinedEnums">>

\* Promise.all resolves once every one of its promises has fulfilled
allSettled_any(log) == Len(log) >= 1
allSettled(log) == \A i \in 1..Len(Queries) : \E k \in 1..Len(log) : log[k].query = Queries[i]

\* the value Promise.all resolves to: the results by position in the
\* argument list, whatever the order of completion
promiseAll(log) ==
  [i \in 1..Len(Queries) |->
     IF \E k \in 1..Len(log) : log[k].query = Queries[i]
       THEN log[CHOOSE k \in 1..Len(log) : log[k].query = Queries[i]].rows
       ELSE <<>>]

\* enumMap[name] of Object.fromEntries(enums.map((e) => [e.name, e.values]))
enumMap(enums, name) ==
  LET hits == {i \in 1..Len(enums) : enums[i].name = name}
  IN IF hits = {} THEN None ELSE Some(enums[MaxOf(hits)].values)

\* tablesMap is an object literal ({}): a key it does not own is looked up
\* on Object.prototype, whose properties are all truthy
ObjectPrototypeKeys ==
  {"constructor", "toString", "toLocaleString", "valueOf", "hasOwnProperty",
   "isPrototypeOf", "propertyIsEnumerable", "__proto__", "__defineGetter__",
   "__defineSetter__", "__lookupGetter__", "__lookupSetter__"}

\* the loop over the table rows: a name is entered once, and not at all
\* when tablesMap[tableName] is already truthy by inheritance
RECURSIVE loadTables(_, _)
loadTables(tablesMap, tables) ==
  IF tables = <<>> THEN tablesMap
  ELSE LET tableName == Head(tables).table_name
       IN loadTables(
            IF \/ \E i \in 1..Len(tablesMap) : tablesMap[i].name = tableName
               \/ tableName \in ObjectPrototypeKeys
              THEN tablesMap
              ELSE Append(tablesMap, [name |-> tableName, columns |-> <<>>,
                                      indexes |-> <<>>, constraints |-> <<>>]),
            Tail(tables))

\* the body of the loop over the column rows: the column pushed for a row
\* of a known table, None when the row is skipped
loadColumn(column, enums) ==
  LET item == [type |-> column.data_type,
               name |-> column.column_name,
               tableName |-> column.table_name,
               nullable |-> (column.is_nullable = "YES"),
               isArray |-> FALSE,
               numericPrecision |-> column.numeric_precision,
               numericScale |-> column.numeric_scale,
               default |-> column.column_default,
               primary |-> None,
               values |-> None]
  IN IF column.data_type = "ARRAY"
       THEN IF ~truthy(column.array_type) THEN None
            ELSE Some([item EXCEPT !.type = column.array_type[1]])
     ELSE IF column.data_type = "USER-DEFINED"
       THEN IF enumMap(enums, column.udt_name) = None THEN None
            ELSE Some([item EXCEPT !.values = enumMap(enums, column.udt_name),
                                   !.type = "enum"])
     ELSE Some(item)

\* the body of the loop over the index rows
loadIndex(index) ==
  Some([name |-> index.index_name,
        tableName |-> index.table_name,
        columnNames |-> index.column_names,
        expression |-> index.expression,
        where |-> index.where,
        unique |-> index.unique,
        using |-> None])

\* the body of the loop over the constraint rows
loadConstraint(constraint) ==
  CASE constraint.constraint_type = "p" ->
         IF constraint.column_names = None THEN None
         ELSE Some([type |-> PRIMARY_KEY,
                    name |-> constraint.constraint_name,
                    tableName |-> constraint.table_name,
                    columnNames |-> constraint.column_names[1]])
    [] constraint.constraint_type = "f" ->
         IF \/ constraint.column_names = None
            \/ ~truthy(constraint.reference_table_name)
            \/ constraint.reference_column_names = None
           THEN None
         ELSE Some([type |-> FOREIGN_KEY,
                    name |-> constraint.constraint_name,
                    tableName |-> constraint.table_name,
                    columnNames |-> constraint.column_names[1],
                    referenceTableName |-> constraint.reference_table_name[1],
                    referenceColumnNames |-> constraint.reference_column_names[1],
                    onUpdate |-> Some(asDatabaseAction(constraint.update_action)),
                    onDelete |-> Some(asDatabaseAction(constraint.delete_action))])
    [] constraint.constraint_type = "u" ->
         IF parseColumnNames(constraint.expression) = None THEN None
         ELSE Some([type |-> UNIQUE,
                    name |-> constraint.constraint_name,
                    tableName |-> constraint.table_name,
                    columnNames |-> parseColumnNames(constraint.expression)[1]])
    [] constraint.constraint_type = "c" ->
         Some([type |-> CHECK,
               name |-> constraint.constraint_name,
               tableName |-> constraint.table_name,
               expression |-> removeFirst(constraint.expression, "CHECK ")])
    [] OTHER -> None

\* table.<list>.push(item) for the table of the row, the row being skipped
\* when tablesMap has no table of that name or the loop body skipped it
pushColumn(tablesMap, tableName, item) ==
  [i \in 1..Len(tablesMap) |->
     IF tablesMap[i].name = tableName /\ item # None
       THEN [tablesMap[i] EXCEPT !.columns = Append(@, item[1])]
       ELSE tablesMap[i]]

pushIndex(tablesMap, tableName, item) ==
  [i \in 1..Len(tablesMap) |->
     IF tablesMap[i].name = tableName /\ item # None
       THEN [tablesMap[i] EXCEPT !.indexes = Append(@, item[1])]
       ELSE tablesMap[i]]

pushConstraint(tablesMap, tableName, item) ==
  [i \in 1..Len(tablesMap) |->
     IF tablesMap[i].name = tableName /\ item # None
       THEN [tablesMap[i] EXCEPT !.constraints = Append(@, item[1])]
       ELSE tablesMap[i]]

RECURSIVE loadColumns(_, _, _)
loadColumns(tablesMap, columns, enums) ==
  IF columns = <<>> THEN tablesMap
  ELSE loadColumns(pushColumn(tablesMap, Head(columns).table_name,
                              loadColumn(Head(columns), enums)),
                   Tail(columns), enums)

RECURSIVE loadIndexes(_, _)
loadIndexes(tablesMap, indexes) ==
  IF indexes = <<>> THEN tablesMap
  ELSE loadIndexes(pushIndex(tablesMap, Head(indexes).table_name,
                             loadIndex(Head(indexes))),
                   Tail(indexes))

RECURSIVE loadConstraints(_, _)
loadConstraints(tablesMap, constraints) ==
  IF constraints = <<>> THEN tablesMap
  ELSE loadConstraints(pushConstraint(tablesMap, Head(constraints).table_name,
                                      loadConstraint(Head(constraints))),
                       Tail(constraints))

\* a row whose table_name is a property of Object.prototype finds that
\* property in place of a table: it has no columns, indexes or constraints
\* list, so the push of an item throws a TypeError
mergeThrows(results) ==
  \/ \E i \in 1..Len(results[2]) :
       /\ results[2][i].table_name \in ObjectPrototypeKeys
       /\ loadColumn(results[2][i], results[5]) # None
  \/ \E i \in 1..Len(results[3]) :
       /\ results[3][i].table_name \in ObjectPrototypeKeys
       /\ loadIndex(results[3][i]) # None
  \/ \E i \in 1..Len(results[4]) :
       /\ results[4][i].table_name \in ObjectPrototypeKeys
       /\ loadConstraint(results[4][i]) # None

\* the part of loadSchema after the await: results are the five row lists
\* Promise.all resolved to; the outcome is the returned schema or the error
\* thrown on the way
loadSchema(requested, results) ==
  IF mergeThrows(results)
    THEN [outcome |-> "failed", error |-> "TypeError"]
    ELSE [outcome |-> "returned",
          schema |->
            [name |-> schemaNameOf(requested),
             tables |-> loadConstraints(
                          loadIndexes(
                            loadColumns(loadTables(<<>>, results[1]), results[2],
                                        results[5]),
                            results[3]),
                          results[4])]]

\* no call of loadSchema is under way
LoaderIdle ==
  /\ catalog = [requested |-> None, tables |-> <<>>, columns |-> <<>>,
                indexes |-> <<>>, constraints |-> <<>>, enums |-> <<>>]
  /\ settled = <<>>
  /\ loaded = [outcome |-> "idle"]

----------------------------------------------------------------------------
(* The metadata compiler (getDynamicSchema and the decorators that feed    *)
(* its registries).                                                        *)

LowerCase == "abcdefghijklmnopqrstuvwxyz"
UpperCase == "ABCDEFGHIJKLMNOPQRSTUVWXYZ"

LowerCaseLetters == {charAt(LowerCase, i) : i \in 1..Len(LowerCase)}
UpperCaseLetters == {charAt(UpperCase, i) : i \in 1..Len(UpperCase)}

isLowerCase(ch) == ch \in LowerCaseLetters
isUpperCase(ch) == ch \in UpperCaseLetters

\* ch.toLowerCase()
toLowerCase(ch) ==
  IF isUpperCase(ch)
    THEN charAt(LowerCase, CHOOSE i \in 1..Len(UpperCase) : charAt(UpperCase, i) = ch)
    ELSE ch

\* name.replaceAll(/([a-z])([A-Z])/g, '$1_$2').toLowerCase()
RECURSIVE asSnakeCase(_)
asSnakeCase(name) ==
  IF name = "" THEN ""
  ELSE IF Len(name) >= 2 /\ isLowerCase(charAt(name, 1)) /\ isUpperCase(charAt(name, 2))
    THEN charAt(name, 1) \o "_" \o asSnakeCase(SubSeq(name, 2, Len(name)))
  ELSE toLowerCase(charAt(name, 1)) \o asSnakeCase(SubSeq(name, 2, Len(name)))

\* s.slice(0, end)
slice(s, end) == IF Len(s) <= end THEN s ELSE SubSeq(s, 1, end)

(* createHash('sha1').update(value).digest('hex'), on the strings the      *)
(* model hashes: the SHA-1 digests in lower-case hexadecimal.              *)
sha1(value) ==
  CASE value = "asset_entity_id" -> "038b7b28b83db2205747ef9912e139002df2c5c5"
    [] value = "asset_entity_ownerId" -> "0b01ffd9ace360dc67b75a8f45b890c9584eee74"
    [] value = "asset_entity_deviceId" -> "70e32d80006ecc59a0c06849074a78594aa6db64"
    [] value = "asset_entity_id_ownerId" -> "f838143aa88e10b5916d16a49a60fa7112edeb34"
    [] value = "asset_entity_id_deviceId" -> "6ad449bc88e8877d120a9a9c269de7b556c280a9"
    [] value = "asset_entity_ownerId_id" -> "8f6b9f54e6d6b0ae8120dfd2fa8a504af7d87641"
    [] value = "asset_entity_ownerId_deviceId" -> "43e5d8dff8f3a7807e7c61b9c0ef9a54e182ad89"
    [] value = "asset_entity_deviceId_id" -> "07a81ec9e2d8071b90f6e243336838cd4f50e4e9"
    [] value = "asset_entity_deviceId_ownerId" -> "f45947d3fbe654c12c7c372beb0198c026d1a1aa"
    [] value = "asset_entity_id_ownerId_deviceId" -> "58d966e117ae02b0bf4cbcc94e56e34b840a65c5"
    [] value = "asset_entity_id_deviceId_ownerId" -> "e464b553c74854d38c83aa47902d83c13ed0fce2"
    [] value = "asset_entity_ownerId_id_deviceId" -> "6b53d21d2e0606fe650ef0af90430b04032bfdf7"
    [] value = "asset_entity_ownerId_deviceId_id" -> "161f2edf4d62f5f9eae86585f87489ff17bf1e42"
    [] value = "asset_entity_deviceId_id_ownerId" -> "186897b1019fc5bf2db520e0f88af5eb15783609"
    [] value = "asset_entity_deviceId_ownerId_id" -> "55ce160932e75dd5aa0b78e8171abca2a0ddbe5d"
    [] value = "assets_id" -> "da96729a8b113377cfb6a62439c28e951e300136"
    [] value = "assets_ownerId" -> "2c5ac0d6fb58b238fd2068de67dfebf4aaccdfeb"
    [] value = "assets_deviceId" -> "9c69b5a0e0be0d1102b9ac4cde4ab82bcbbed17e"
    [] value = "assets_id_ownerId" -> "d93ea47b64e3ca71783abe3bf277b197b4bd40e8"
    [] value = "assets_id_deviceId" -> "299ce5e2d34e794a28c32732a36c25f870410e0b"
    [] value = "assets_ownerId_id" -> "388608ea8ade82d707f880c4e7ccffa002f5eca1"
    [] value = "assets_ownerId_deviceId" -> "0f6e1051cef9fe24a6de76190430301717619c7f"
    [] value = "assets_deviceId_id" -> "8dd9b144d4a7b5c6f14f66a0bc4276c057750561"
    [] value = "assets_deviceId_ownerId" -> "fa0a0f89f847398a595cda430b3767ef6a8bf979"
    [] value = "assets_id_ownerId_deviceId" -> "1b7e37efa9f819f0be15e1930097245e3d91dd06"
    [] value = "assets_id_deviceId_ownerId" -> "89cef551f8b16424ce6e4087257a2617b8b62d3a"
    [] value = "assets_ownerId_id_deviceId" -> "51c89882c6ebc0c721fd1077a887311b02589369"
    [] value = "assets_ownerId_deviceId_id" -> "0814455d5ac874fe5dc40eee3db483123d394206"
    [] value = "assets_deviceId_id_ownerId" -> "c7a87a274b9a786fc49f74c161797b956b31e4ba"
    [] value = "assets_deviceId_ownerId_id" -> "06d2884ff2193c2be28a24a10129b837f766048f"
    [] value = "user_entity_id" -> "b54f8ea623b17094db7667d8206227b476dc2d35"
    [] value = "user_entity_ownerId" -> "9441e77ec44a5572fa1e741e82c18bfd5113455a"
    [] value = "user_entity_deviceId" -> "f691d0f9a18cbbbd307b9a04a92f4a93601fdb1a"
    [] value = "user_entity_id_ownerId" -> "45e95cb313efa86a0ed6777b9005154c6b0a7470"
    [] value = "user_entity_id_deviceId" -> "43b733e72de66a82dd4fc983ecad7df3dbc708d6"
    [] value = "user_entity_ownerId_id" -> "aaa0f2483751dde86b8cea51b756923577ebb312"
    [] value = "user_entity_ownerId_deviceId" -> "57c9bca0bfdc16e9ab4b9a86b5ce72c0868dcabb"
    [] value = "user_entity_deviceId_id" -> "31274f72afa4127132c8d23a6436887f0f312503"
    [] value = "user_entity_deviceId_ownerId" -> "4b42d9013124b169db0201524678d7e08d069cb5"
    [] value = "user_entity_id_ownerId_deviceId" -> "f3b70af2091505d27baa5349e79bd0530b2695fb"
    [] value = "user_entity_id_deviceId_ownerId" -> "f85c1c124ed60731fc531be84976dfaeaf5d7efd"
    [] value = "user_entity_ownerId_id_deviceId" -> "932b28aca1df0949090e8805d2a7e41396a471a4"
    [] value = "user_entity_ownerId_deviceId_id" -> "689adee8ad49869c5803c445a8e3aaef1c46932d"
    [] value = "user_entity_deviceId_id_ownerId" -> "5b4f65717d74a98893d4cf392c76d28b3c032b28"
    [] value = "user_entity_deviceId_ownerId_id" -> "81108c7c37534863e01f66310f1dcf12c7968488"
    [] value = "users_id" -> "a3ffb1c0c8416b9fc6f907b743321091c27c04f6"
    [] value = "users_ownerId" -> "d047f0b6c43f85848c0b8c5427633af1535807ea"
    [] value = "users_deviceId" -> "838d3c4a6792bbb0dc90031c2c17b71cff213257"
    [] value = "users_id_ownerId" -> "fb89308d135a704b9200e5b3afc9618256595056"
    [] value = "users_id_deviceId" -> "36cc5ffcbff947ba79b47bfc092dbffe937e9933"
    [] value = "users_ownerId_id" -> "7aef2943d895796f017be2b54618cb050afa7238"
    [] value = "users_ownerId_deviceId" -> "d71f8053668019a17af241f4402a58c65f4a5a04"
    [] value = "users_deviceId_id" -> "7fba2824328ae093853f0c10ed70df5d88f0f97b"
    [] value = "users_deviceId_ownerId" -> "b1fb9520d0deb36d526ef33fe074051f9444c34f"
    [] value = "users_id_ownerId_deviceId" -> "3e8038d891c1d9784caec4a6b80a34f7c1fac4f5"
    [] value = "users_id_deviceId_ownerId" -> "1968c8ed98a6890945b4c7bb6c8351db201dd626"
    [] value = "users_ownerId_id_deviceId" -> "a65f183cc410772547f72a75a9c9393d5f14b334"
    [] value = "users_ownerId_deviceId_id" -> "5c3001fd5787a6cda79b04ad15b06b41d180494d"
    [] value = "users_deviceId_id_ownerId" -> "e10ff2c7b396f892551cd7f53a7b272a0b0b966c"
    [] value = "users_deviceId_ownerId_id" -> "84ecfb33c79ed0afc507d46181745053771ce3f5"

\* variant: the column names are hashed in their given order
asKey_unsorted(prefix, tableName, columnNames) ==
  slice(prefix \o sha1(tableName \o "_" \o join(columnNames, "_")), 30)

asKey(prefix, tableName, columnNames) ==
  slice(prefix \o sha1(tableName \o "_" \o join(toSorted(columnNames), "_")), 30)

\* the registries the decorators push to, before any decorator has run
EmptyRegistry ==
  [tables |-> <<>>, columns |-> <<>>, indexes |-> <<>>, columnIndexes |-> <<>>,
   relationOptions |-> <<>>]

\* the compiler's module state as the module is loaded
CompilerLoaded ==
  /\ registry = EmptyRegistry
  /\ initialized = FALSE
  /\ dynamicSchema = [name |-> "public", tables |-> <<>>]
  /\ returned = <<>>

asPrimaryKeyConstraintName(tableName, columnNames) == asKey("PK_", tableName, columnNames)
asUniqueConstraintName(tableName, columnNames) == asKey("UQ_", tableName, columnNames)
asForeignKeyConstraintName(tableName, columnNames) == asKey("FK_", tableName, columnNames)

----------------------------------------------------------------------------
(* The database executing a change list: table.create adds the table with  *)
(* its columns, a delete removes the named object, a create adds it, and   *)
(* column.update replaces the target column by the source column.  An      *)
(* index.delete names no table: it removes the index of that name wherever *)
(* it is.                                                                  *)

removeNamed(list, name) == SelectSeq(list, LAMBDA x : x.name # name)

onTable(tables, name, F(_)) ==
  [i \in 1..Len(tables) |-> IF tables[i].name = name THEN F(tables[i]) ELSE tables[i]]

ApplyChange(tables, c) ==
  CASE c.type = "table.create" ->
         Append(tables, [name |-> c.tableName, columns |-> c.columns,
                         indexes |-> <<>>, constraints |-> <<>>])
    [] c.type = "table.delete" -> removeNamed(tables, c.tableName)
    [] c.type = "column.create" ->
         onTable(tables, c.column.tableName,
                 LAMBDA t : [t EXCEPT !.columns = Append(@, c.column)])
    [] c.type = "column.update" ->
         onTable(tables, c.target.tableName,
                 LAMBDA t : [t EXCEPT !.columns =
                    [j \in 1..Len(@) |-> IF @[j].name = c.target.name THEN c.source ELSE @[j]]])
    [] c.type = "column.delete" ->
         onTable(tables, c.tableName,
                 LAMBDA t : [t EXCEPT !.columns = removeNamed(@, c.columnName)])
    [] c.type = "constraint.create" ->
         onTable(tables, c.constraint.tableName,
                 LAMBDA t : [t EXCEPT !.constraints = Append(@, c.constraint)])
    [] c.type = "constraint.delete" ->
         onTable(tables, c.tableName,
                 LAMBDA t : [t EXCEPT !.constraints = removeNamed(@, c.constraintName)])
    [] c.type = "index.create" ->
         onTable(tables, c.index.tableName,
                 LAMBDA t : [t EXCEPT !.indexes = Append(@, c.index)])
    [] c.type = "index.delete" ->
         [i \in 1..Len(tables) |->
            [tables[i] EXCEPT !.indexes = removeNamed(@, c.indexName)]]

----------------------------------------------------------------------------
(* Inputs. *)

TableNamePool == <<"T1", "T2", "T3", "T4">>
ColumnNamePool == <<"c1", "c2", "c3", "c4">>

TableNames == {TableNamePool[i] : i \in 1..MaxTables}
KeyNames == {ColumnNamePool[i] : i \in 1..MaxKeyLen}

\* the sequences of distinct members of S of a length in lo..hi
DistinctSeqs(S, lo, hi) ==
  UNION {{s \in [1..n -> S] : \A i, j \in 1..n : i # j => s[i] # s[j]} : n \in lo..hi}

KeyLists == DistinctSeqs(KeyNames, 1, MaxKeyLen)
ShortKeyLists == {<<"c1">>, <<"c1", "c2">>, <<"c2", "c1">>}

\* the table after `name` in the pool, cyclically
NextTable(name) ==
  LET i == CHOOSE k \in 1..MaxTables : TableNamePool[k] = name
  IN TableNamePool[(i % MaxTables) + 1]

Schema(tables) == [name |-> "public", tables |-> tables]

Table(name, columns, indexes, constraints) ==
  [name |-> name, columns |-> columns, indexes |-> indexes, constraints |-> constraints]

Column(tableName, name, type, nullable, isArray, primary, default) ==
  [tableName |-> tableName, name |-> name, type |-> type, nullable |-> nullable,
   isArray |-> isArray, primary |-> primary, default |-> default]

\* the column the test helper newSchema builds
PlainColumn(tableName, name) ==
  Column(tableName, name, "character varying", FALSE, FALSE, None, None)

Index(name, tableName, columnNames, expression, unique, where, using) ==
  [name |-> name, tableName |-> tableName, columnNames |-> columnNames,
   expression |-> expression, unique |-> unique, where |-> where, using |-> using]

PrimaryKey(name, tableName, columnNames) ==
  [type |-> PRIMARY_KEY, name |-> name, tableName |-> tableName, columnNames |-> columnNames]

Unique(name, tableName, columnNames) ==
  [type |-> UNIQUE, name |-> name, tableName |-> tableName, columnNames |-> columnNames]

Check(name, tableName, expression) ==
  [type |-> CHECK, name |-> name, tableName |-> tableName, expression |-> expression]

ForeignKey(name, tableName, columnNames, referenceTableName, referenceColumnNames,
           onUpdate, onDelete) ==
  [type |-> FOREIGN_KEY, name |-> name, tableName |-> tableName,
   columnNames |-> columnNames, referenceTableName |-> referenceTableName,
   referenceColumnNames |-> referenceColumnNames,
   onUpdate |-> onUpdate, onDelete |-> onDelete]

AllOptions == {[ignoreExtraTables |-> o] : o \in {None, Some(TRUE), Some(FALSE)}}
KeepNothing == [ignoreExtraTables |-> Some(FALSE)]

(* Structural inputs: up to MaxTables tables in any order; the two indexes *)
(* IDX_1, IDX_2 sit together on at most one table of a schema, and so do   *)
(* the four constraints; the foreign key references the next table.        *)
StructTable(name, withIndexes, withConstraints) ==
  Table(name,
        <<PlainColumn(name, "c2"), PlainColumn(name, "c1")>>,
        IF withIndexes
          THEN << Index("IDX_2", name, Some(<<"c2", "c1">>), None, TRUE, None, None),
                  Index("IDX_1", name, None, Some("lower(c1)"), FALSE, None, None) >>
          ELSE <<>>,
        IF withConstraints
          THEN << Check("CHK_1", name, "c1 <> c2"),
                  Unique("UQ_1", name, <<"c2">>),
                  ForeignKey("FK_1", name, <<"c2">>, NextTable(name), <<"c1">>,
                             Some("CASCADE"), None),
                  PrimaryKey("PK_1", name, <<"c1">>) >>
          ELSE <<>>)

StructSchemasOver(orders) ==
  UNION {{Schema([i \in 1..Len(order) |->
                    StructTable(order[i], order[i] = idxAt, order[i] = fkAt)])
            : idxAt \in Range(order) \cup {"-"}, fkAt \in Range(order) \cup {"-"}}
         : order \in orders}

TableOrders == DistinctSeqs(TableNames, 0, MaxTables)

\* the orders that follow the pool
PoolOrders ==
  {o \in TableOrders :
     \A i, j \in 1..Len(o) :
       i < j => \E a, b \in 1..MaxTables :
                  a < b /\ TableNamePool[a] = o[i] /\ TableNamePool[b] = o[j]}

\* desired schemas list their tables in any order, observed ones in pool order
StructSources == StructSchemasOver(TableOrders)
StructTargets == StructSchemasOver(PoolOrders)

(* Column inputs: table T1 on both sides; column c1 takes every combination *)
(* of the compared fields.                                                   *)
ColumnVariants ==
  {Column("T1", "c1", ty, nl, ar, pr, df) :
     ty \in {"character varying", "uuid"}, nl \in BOOLEAN, ar \in BOOLEAN,
     pr \in {None, Some(FALSE), Some(TRUE)}, df \in {None, Some("now()")}}

ColumnLists ==
  {<<>>, <<PlainColumn("T1", "c2")>>, <<PlainColumn("T1", "c2"), PlainColumn("T1", "c1")>>}
    \cup {<<v>> : v \in ColumnVariants}

ColumnSchemas == {Schema(<<Table("T1", cs, <<>>, <<>>)>>) : cs \in ColumnLists}

(* Constraint inputs: table T1 on both sides with one constraint N of the   *)
(* same type on each side.                                                   *)
PrimaryKeyVariants ==
  {PrimaryKey("N", t, ks) : t \in {"T1", "T2"}, ks \in KeyLists}
UniqueVariants ==
  {Unique("N", t, ks) : t \in {"T1", "T2"}, ks \in KeyLists}
CheckVariants ==
  {Check("N", t, e) : t \in {"T1", "T2"}, e \in {"c1 > 0", "(c1 > 0)"}}
KeyListPairs ==
  {<<ks, <<"c1", "c2">> >> : ks \in ShortKeyLists} \cup {<< <<"c1", "c2">>, ks>> : ks \in ShortKeyLists}
ForeignKeyVariants ==
  {ForeignKey("N", t, kp[1], rt, kp[2], up, de) :
     t \in {"T1", "T2"}, rt \in {"T2", "T3"}, kp \in KeyListPairs,
     up \in {None, Some("CASCADE")}, de \in {None, Some("SET NULL")}}

ConstraintSchema(c) ==
  Schema(<<Table("T1", <<PlainColumn("T1", "c1"), PlainColumn("T1", "c2")>>, <<>>, <<c>>)>>)

(* One constraint N of each type on T1: the two sides of a table whose     *)
(* constraint N changed its type.                                           *)
MixedTypeConstraints ==
  { PrimaryKey("N", "T1", <<"c1">>),
    ForeignKey("N", "T1", <<"c1">>, "T2", <<"c1">>, None, None),
    Unique("N", "T1", <<"c1">>),
    Check("N", "T1", "c1 > 0") }

(* Index inputs: table T1 on both sides with one index IDX on each side.    *)
IndexVariants ==
  {Index("IDX", "T1", ks, ex, un, wh, us) :
     ks \in {None} \cup {Some(k) : k \in ShortKeyLists},
     ex \in {None, Some("lower(c1)")}, un \in BOOLEAN,
     wh \in {None, Some("c1 IS NOT NULL")}, us \in {None, Some("gin")}}

IndexSchema(x) ==
  Schema(<<Table("T1", <<PlainColumn("T1", "c1"), PlainColumn("T1", "c2")>>, <<x>>, <<>>)>>)

----------------------------------------------------------------------------
(* The run. *)

Init ==
  /\ \/ /\ source \in StructSources
        /\ target \in StructTargets
        /\ options \in AllOptions
     \/ /\ source \in ColumnSchemas
        /\ target \in ColumnSchemas
        /\ options = KeepNothing
     \/ /\ \E V \in {PrimaryKeyVariants, UniqueVariants, CheckVariants, ForeignKeyVariants} :
             \E s \in V, t \in V :
               /\ source = ConstraintSchema(s)
               /\ target = ConstraintSchema(t)
        /\ options = KeepNothing
     \/ /\ \E s \in MixedTypeConstraints, t \in MixedTypeConstraints :
             /\ s.type # t.type
             /\ source = ConstraintSchema(s)
             /\ target = ConstraintSchema(t)
        /\ options = KeepNothing
     \/ /\ \E s \in IndexVariants, t \in IndexVariants :
             /\ source = IndexSchema(s)
             /\ target = IndexSchema(t)
        /\ options = KeepNothing
  /\ pc = "start"
  /\ items = <<>>
  /\ observed = <<>>
  /\ applied = 0
  /\ rediff = <<>>
  /\ sql = <<>>
  /\ CompilerLoaded
  /\ LoaderIdle

\* service.diff(source, target, options)
Diff ==
  /\ pc = "start"
  /\ items' = diff(source, target, options)
  /\ observed' = target.tables
  /\ pc' = "apply"
  /\ UNCHANGED <<source, target, options, applied, rediff, sql>>
  /\ UNCHANGED compilerVars
  /\ UNCHANGED loaderVars

\* the database executes the next change of the list
ApplyNext ==
  /\ pc = "apply"
  /\ applied < Len(items)
  /\ observed' = ApplyChange(observed, items[applied + 1])
  /\ applied' = applied + 1
  /\ UNCHANGED <<source, target, options, pc, items, rediff, sql>>
  /\ UNCHANGED compilerVars
  /\ UNCHANGED loaderVars

\* service.diff(source, <the schema now in the database>, {ignoreExtraTables: false})
Rediff ==
  /\ pc = "apply"
  /\ applied = Len(items)
  /\ rediff' = diff(source, Schema(observed), KeepNothing)
  /\ pc' = "done"
  /\ UNCHANGED <<source, target, options, items, observed, applied, sql>>
  /\ UNCHANGED compilerVars
  /\ UNCHANGED loaderVars

Next == Diff \/ ApplyNext \/ Rediff

Spec == Init /\ [][Next]_vars

----------------------------------------------------------------------------
(* Vocabulary of the properties. *)

Ignore == options.ignoreExtraTables
TablesOf(schema) == {schema.tables[i] : i \in 1..Len(schema.tables)}
TableNamesOf(schema) == {t.name : t \in TablesOf(schema)}
TableNamed(schema, n) == CHOOSE t \in TablesOf(schema) : t.name = n
InBoth == TableNamesOf(source) \cap TableNamesOf(target)
Positions == 1..Len(items)

NamesUnique(list) == \A i, j \in 1..Len(list) : list[i].name = list[j].name => i = j

\* the data model's invariants: names are unique (tables in the schema, columns in
\* a table, indexes and constraints in the schema) and every object names its table
WellFormed(schema) ==
  /\ NamesUnique(schema.tables)
  /\ \A t \in TablesOf(schema) :
       /\ NamesUnique(t.columns) /\ NamesUnique(t.indexes) /\ NamesUnique(t.constraints)
       /\ \A x \in Range(t.columns) \cup Range(t.indexes) \cup Range(t.constraints) :
            x.tableName = t.name
  /\ \A t, u \in TablesOf(schema) :
       t.name # u.name =>
         /\ \A x \in Range(t.indexes), y \in Range(u.indexes) : x.name # y.name
         /\ \A x \in Range(t.constraints), y \in Range(u.constraints) : x.name # y.name

TableCreate(t) == [type |-> "table.create", tableName |-> t.name, columns |-> t.columns]
TableDelete(n) == [type |-> "table.delete", tableName |-> n]
ColumnCreate(c) == [type |-> "column.create", column |-> c]
ColumnUpdate(s, t) == [type |-> "column.update", source |-> s, target |-> t]
ColumnDelete(c) == [type |-> "column.delete", tableName |-> c.tableName, columnName |-> c.name]
ConstraintCreate(c) == [type |-> "constraint.create", constraint |-> c]
ConstraintDelete(c) ==
  [type |-> "constraint.delete", tableName |-> c.tableName, constraintName |-> c.name]
IndexCreate(x) == [type |-> "index.create", index |-> x]
IndexDelete(x) == [type |-> "index.delete", indexName |-> x.name]

\* change c deletes something of table t of the observed schema
DeletesFrom(c, t) ==
  \/ c.type \in {"table.delete", "column.delete", "constraint.delete"} /\ c.tableName = t.name
  \/ c.type = "index.delete" /\ \E x \in Range(t.indexes) : x.name = c.indexName

\* change c is about table t of the observed schema
Concerns(c, t) ==
  \/ DeletesFrom(c, t)
  \/ c.type = "table.create" /\ c.tableName = t.name
  \/ c.type = "column.create" /\ c.column.tableName = t.name
  \/ c.type = "column.update" /\ t.name \in {c.source.tableName, c.target.tableName}
  \/ c.type = "constraint.create" /\ c.constraint.tableName = t.name
  \/ c.type = "index.create" /\ c.index.tableName = t.name

----------------------------------------------------------------------------
(* C1 -- a schema whose names are unique (tables; per table the columns,   *)
(* the indexes and the constraints of each type) diffed against itself     *)
(* with ignoreExtraTables false gives the empty change list.               *)
Thm_C1_SelfDiffEmpty ==
  (pc # "start" /\ source = target /\ Ignore = Some(FALSE)) => items = <<>>

Wit_C1_SelfDiffEmpty ==
  /\ pc # "start" /\ source = target /\ Ignore = Some(FALSE) /\ items = <<>>
  /\ \E t \in TablesOf(source) :
       t.columns # <<>> /\ t.indexes # <<>> /\ Len(t.constraints) >= 4

(* C2 -- applying the changes of diff(S, T, {ignoreExtraTables: false}) to *)
(* T in list order gives a schema that diffs empty against S.              *)
Claim_C2_ApplyReachesSource ==
  (pc = "done" /\ Ignore = Some(FALSE) /\ WellFormed(source) /\ WellFormed(target))
    => rediff = <<>>

Claim_C4_ApplicableOrder ==
  (pc # "start" /\ WellFormed(source) /\ WellFormed(target)) =>
    \A i, j \in Positions :
      items[j].type = "table.create" =>
        /\ (/\ items[i].type = "constraint.create"
            /\ items[i].constraint.type = FOREIGN_KEY
            /\ items[i].constraint.referenceTableName = items[j].tableName) => j < i
        /\ (/\ items[i].type = "constraint.create"
            /\ items[i].constraint.tableName = items[j].tableName) => j < i
        /\ (/\ items[i].type = "index.create"
            /\ items[i].index.tableName = items[j].tableName) => j < i

----------------------------------------------------------------------------
(* Objects present on both sides: same table name, same object name (and,  *)
(* for constraints, same type).                                            *)

ColumnPairs ==
  UNION {{p \in Range(TableNamed(source, n).columns) \X Range(TableNamed(target, n).columns) :
            p[1].name = p[2].name} : n \in InBoth}

ConstraintPairs ==
  UNION {{p \in Range(TableNamed(source, n).constraints)
                  \X Range(TableNamed(target, n).constraints) :
            p[1].name = p[2].name /\ p[1].type = p[2].type} : n \in InBoth}

IndexPairs ==
  UNION {{p \in Range(TableNamed(source, n).indexes) \X Range(TableNamed(target, n).indexes) :
            p[1].name = p[2].name} : n \in InBoth}

ListOf(o) == IF o = None THEN <<>> ELSE o[1]

\* structural equality of two constraints of one type, as the data model words it
ConstraintsEqual(s, t) ==
  CASE s.type = PRIMARY_KEY ->
         s.tableName = t.tableName /\ Range(s.columnNames) = Range(t.columnNames)
    [] s.type = FOREIGN_KEY ->
         /\ s.tableName = t.tableName
         /\ s.referenceTableName = t.referenceTableName
         /\ s.onUpdate = t.onUpdate
         /\ s.onDelete = t.onDelete
         /\ Range(s.columnNames) = Range(t.columnNames)
         /\ Range(s.referenceColumnNames) = Range(t.referenceColumnNames)
    [] s.type = UNIQUE -> Range(s.columnNames) = Range(t.columnNames)
    [] s.type = CHECK -> s.expression = t.expression

IndexesEqual(s, t) ==
  /\ Range(ListOf(s.columnNames)) = Range(ListOf(t.columnNames))
  /\ s.expression = t.expression
  /\ s.unique = t.unique
  /\ s.where = t.where

\* b is a rearrangement of a
IsPermutation(a, b) ==
  /\ Len(a) = Len(b)
  /\ \A x \in Range(a) \cup Range(b) :
       Cardinality({i \in 1..Len(a) : a[i] = x}) = Cardinality({i \in 1..Len(b) : b[i] = x})

\* d is directly followed by c somewhere, and c never comes before d
DeleteThenCreate(d, c) ==
  /\ \E i \in Positions : i < Len(items) /\ items[i] = d /\ items[i + 1] = c
  /\ \A i, j \in Positions : (items[i] = d /\ items[j] = c) => i < j

ChangesOfColumn(tableName, name) ==
  SelectSeq(items, LAMBDA c :
    \/ c.type = "column.create" /\ c.column.tableName = tableName /\ c.column.name = name
    \/ c.type = "column.delete" /\ c.tableName = tableName /\ c.columnName = name
    \/ c.type = "column.update" /\ c.source.tableName = tableName /\ c.source.name = name)

ChangesOfConstraint(name) ==
  SelectSeq(items, LAMBDA c :
    \/ c.type = "constraint.create" /\ c.constraint.name = name
    \/ c.type = "constraint.delete" /\ c.constraintName = name)

ChangesOfIndex(name) ==
  SelectSeq(items, LAMBDA c :
    \/ c.type = "index.create" /\ c.index.name = name
    \/ c.type = "index.delete" /\ c.indexName = name)

----------------------------------------------------------------------------
(* C5 -- when diff replaces an object present on both sides (a column      *)
(* whose type changed, a structurally unequal constraint or index), the    *)
(* list holds the delete of the target object directly followed by the     *)
(* create of the source object, and the create never precedes the delete.  *)
Thm_C5_DeleteBeforeCreate ==
  pc # "start" =>
    /\ \A p \in ColumnPairs :
         p[1].type # p[2].type => DeleteThenCreate(ColumnDelete(p[2]), ColumnCreate(p[1]))
    /\ \A p \in ConstraintPairs :
         ~ConstraintsEqual(p[1], p[2]) =>
           DeleteThenCreate(ConstraintDelete(p[2]), ConstraintCreate(p[1]))
    /\ \A p \in IndexPairs :
         ~IndexesEqual(p[1], p[2]) => DeleteThenCreate(IndexDelete(p[2]), IndexCreate(p[1]))

Wit_C5_DeleteBeforeCreate ==
  /\ pc # "start"
  /\ \E p \in ColumnPairs :
       /\ p[1].type # p[2].type
       /\ items = <<ColumnDelete(p[2]), ColumnCreate(p[1])>>

ReorderedConstraint(s, t) ==
  /\ s # t
  /\ s.type \in {PRIMARY_KEY, UNIQUE, FOREIGN_KEY}
  /\ IsPermutation(s.columnNames, t.columnNames)
  /\ IF s.type = FOREIGN_KEY
       THEN /\ IsPermutation(s.referenceColumnNames, t.referenceColumnNames)
            /\ [s EXCEPT !.columnNames = t.columnNames,
                         !.referenceColumnNames = t.referenceColumnNames] = t
       ELSE [s EXCEPT !.columnNames = t.columnNames] = t

ReorderedIndex(s, t) ==
  /\ s # t
  /\ s.columnNames # None /\ t.columnNames # None
  /\ IsPermutation(s.columnNames[1], t.columnNames[1])
  /\ [s EXCEPT !.columnNames = t.columnNames] = t

Thm_C7_ColumnOrderIgnored ==
  pc # "start" =>
    /\ \A p \in ConstraintPairs :
         ReorderedConstraint(p[1], p[2]) => ChangesOfConstraint(p[1].name) = <<>>
    /\ \A p \in IndexPairs :
         ReorderedIndex(p[1], p[2]) => ChangesOfIndex(p[1].name) = <<>>

Wit_C7_ColumnOrderIgnored ==
  /\ pc # "start" /\ items = <<>>
  /\ \E p \in ConstraintPairs :
       /\ p[1].type = FOREIGN_KEY
       /\ ReorderedConstraint(p[1], p[2])
       /\ p[1].referenceColumnNames # p[2].referenceColumnNames

(* C8 -- a column present in both tables whose type differs gets exactly   *)
(* column.delete(target table, name) then column.create(source column) and *)
(* no column.update, whatever else differs.                                *)
Thm_C8_TypeChange ==
  pc # "start" =>
    \A p \in ColumnPairs :
      p[1].type # p[2].type =>
        ChangesOfColumn(p[2].tableName, p[2].name)
          = <<ColumnDelete(p[2]), ColumnCreate(p[1])>>

Wit_C8_TypeChange ==
  /\ pc # "start"
  /\ \E p \in ColumnPairs :
       /\ p[1].type # p[2].type
       /\ p[1].nullable # p[2].nullable /\ p[1].default # p[2].default
       /\ p[1].primary # p[2].primary /\ p[1].isArray # p[2].isArray
       /\ Len(items) = 2

(* C9 -- a column present in both tables with equal type gets exactly one  *)
(* column.update{source, target} when nullable, primary, default or        *)
(* isArray differs, and no change when none of them differs.               *)
Thm_C9_ColumnUpdate ==
  pc # "start" =>
    \A p \in ColumnPairs :
      p[1].type = p[2].type =>
        ChangesOfColumn(p[2].tableName, p[2].name)
          = IF \/ p[1].nullable # p[2].nullable
               \/ p[1].primary # p[2].primary
               \/ p[1].default # p[2].default
               \/ p[1].isArray # p[2].isArray
              THEN <<ColumnUpdate(p[1], p[2])>>
              ELSE <<>>

Wit_C9_ColumnUpdate ==
  /\ pc # "start"
  /\ \E p \in ColumnPairs :
       /\ p[1].type = p[2].type
       /\ p[1].isArray # p[2].isArray
       /\ p[1].nullable = p[2].nullable /\ p[1].primary = p[2].primary
       /\ p[1].default = p[2].default
       /\ items = <<ColumnUpdate(p[1], p[2])>>

(* C10 -- a constraint of one type and name present in both tables gets no *)
(* change exactly when the two are structurally equal by the type's rule,  *)
(* and otherwise exactly constraint.delete(target) then                    *)
(* constraint.create(source).                                              *)
Thm_C10_ConstraintEquality ==
  pc # "start" =>
    \A p \in ConstraintPairs :
      ChangesOfConstraint(p[1].name)
        = IF ConstraintsEqual(p[1], p[2])
            THEN <<>>
            ELSE <<ConstraintDelete(p[2]), ConstraintCreate(p[1])>>

Wit_C10_ConstraintEquality ==
  /\ pc # "start" /\ items = <<>>
  /\ \E p \in ConstraintPairs :
       /\ p[1].type = UNIQUE
       /\ p[1].tableName # p[2].tableName
       /\ ConstraintsEqual(p[1], p[2])


(* C11 -- an index name present in both tables gets index.delete(target)   *)
(* then index.create(source) exactly when columnNames (as sets),           *)
(* expression, unique or where differ, and no change otherwise; a          *)
(* difference in `using` alone produces no change.                         *)
Thm_C11_IndexEquality ==
  pc # "start" =>
    \A p \in IndexPairs :
      ChangesOfIndex(p[1].name)
        = IF IndexesEqual(p[1], p[2])
            THEN <<>>
            ELSE <<IndexDelete(p[2]), IndexCreate(p[1])>>

Wit_C11_IndexEquality ==
  /\ pc # "start" /\ items = <<>>
  /\ \E p \in IndexPairs :
       /\ p[1].using # p[2].using
       /\ [p[1] EXCEPT !.using = p[2].using] = p[2]

Wit_C11_IndexReplaced ==
  /\ pc # "start"
  /\ \E p \in IndexPairs :
       /\ p[1].where # p[2].where
       /\ [p[1] EXCEPT !.where = p[2].where] = p[2]
       /\ items = <<IndexDelete(p[2]), IndexCreate(p[1])>>

----------------------------------------------------------------------------
(* The emitter's run: a change list is drawn and diffToSql is applied.     *)

\* largest length of the change lists that mix change kinds
MaxItems == 2

\* columns of created tables and added columns; '' is the default the
\* metadata compiler stores for @Column({ default: '' })
SqlColumns ==
  {Column("T1", n, ty, nl, FALSE, Some(FALSE), df) :
     n \in {"c1", "c2"}, ty \in {"character varying", "uuid"}, nl \in BOOLEAN,
     df \in {None, Some(""), Some("now()")}}

SqlColumnLists == DistinctSeqs({c \in SqlColumns : c.type = "uuid"}, 1, 2)

SqlForeignKeys ==
  ForeignKeyVariants
    \cup {ForeignKey("N", "T1", <<"c2", "c1">>, "T2", <<"c2", "c1">>, up, de) :
            up \in {None, Some("CASCADE")}, de \in {None, Some("NO ACTION")}}

\* names whose code-unit order differs from their numeric and caseless orders
MixedNames == <<"c2", "c10", "C3">>

SqlConstraints ==
  PrimaryKeyVariants \cup UniqueVariants \cup CheckVariants \cup SqlForeignKeys
    \cup {Unique("N", "T1", MixedNames), PrimaryKey("N", "T1", MixedNames)}

\* the inputs of the emitter's unit tests
TestColumn(nullable, default) ==
  Column("Table1", "Column1", "character varying", nullable, FALSE, None, default)
TestIndex(unique) ==
  Index("IDX_1", "Table1", Some(<<"Column1">>), None, unique, None, None)
TestForeignKey(onUpdate, onDelete) ==
  ForeignKey("FK_1", "Table1", <<"Column1">>, "Table2", <<"Column2">>, onUpdate, onDelete)

TestChanges ==
  {[type |-> "table.create", tableName |-> "Table1", columns |-> <<TestColumn(nl, df)>>] :
     nl \in BOOLEAN, df \in {None, Some("uuid_generate_v4()")}}
    \cup {ColumnCreate(TestColumn(TRUE, None)),
          ColumnUpdate(TestColumn(TRUE, None), TestColumn(FALSE, None)),
          ColumnUpdate(TestColumn(FALSE, None), TestColumn(TRUE, None)),
          TableDelete("Table1"),
          ColumnDelete(TestColumn(TRUE, None)),
          ConstraintCreate(TestForeignKey(None, None)),
          ConstraintCreate(TestForeignKey(Some("CASCADE"), Some("NO ACTION"))),
          ConstraintCreate(Unique("UQ_1", "Table1", <<"Column1">>)),
          ConstraintCreate(Unique("UQ_1", "Table1", <<"Column1", "Column2">>)),
          IndexCreate(TestIndex(FALSE)), IndexCreate(TestIndex(TRUE)),
          IndexDelete(TestIndex(FALSE))}

\* every kind of change, each in all its variants
SqlChanges ==
  {[type |-> "table.create", tableName |-> "T1", columns |-> cs] : cs \in SqlColumnLists}
    \cup {TableDelete(n) : n \in TableNames}
    \cup {ColumnCreate(c) : c \in SqlColumns}
    \cup {ColumnUpdate(s, t) : s \in ColumnVariants, t \in ColumnVariants}
    \cup {ColumnDelete(c) : c \in SqlColumns}
    \cup {ConstraintCreate(c) : c \in SqlConstraints}
    \cup {ConstraintDelete(c) : c \in SqlConstraints}
    \cup {IndexCreate(x) : x \in IndexVariants}
    \cup {IndexDelete(x) : x \in IndexVariants}
    \cup TestChanges

\* one change of each kind, the column.update in both its forms
MixedChanges ==
  {[type |-> "table.create", tableName |-> "T2",
    columns |-> <<PlainColumn("T2", "c2"), PlainColumn("T2", "c1")>>],
   TableDelete("T1"),
   ColumnCreate(PlainColumn("T1", "c3")),
   ColumnUpdate(Column("T1", "c1", "uuid", TRUE, FALSE, None, None), PlainColumn("T1", "c1")),
   ColumnUpdate(Column("T1", "c2", "uuid", FALSE, TRUE, None, None), PlainColumn("T1", "c2")),
   ColumnDelete(PlainColumn("T1", "c4")),
   ConstraintCreate(Unique("UQ_1", "T1", <<"c2", "c1">>)),
   ConstraintDelete(Unique("UQ_2", "T1", <<"c1">>)),
   IndexCreate(Index("IDX_1", "T1", Some(<<"c2", "c1">>), None, TRUE, None, None)),
   IndexDelete(Index("IDX_2", "T1", None, None, FALSE, None, None))}

SqlInputs ==
  {<<c>> : c \in SqlChanges}
    \cup UNION {[1..n -> MixedChanges] : n \in 0..MaxItems}

InitSql ==
  /\ items \in SqlInputs
  /\ pc = "diffed"
  /\ sql = <<>>
  /\ source = Schema(<<>>)
  /\ target = Schema(<<>>)
  /\ options = KeepNothing
  /\ observed = <<>>
  /\ applied = 0
  /\ rediff = <<>>
  /\ CompilerLoaded
  /\ LoaderIdle

\* service.diffToSql(diff)
DiffToSql ==
  /\ pc = "diffed"
  /\ sql' = diffToSql(items)
  /\ pc' = "written"
  /\ UNCHANGED <<source, target, options, items, observed, applied, rediff>>
  /\ UNCHANGED compilerVars
  /\ UNCHANGED loaderVars

NextSql == DiffToSql

SqlSpec == InitSql /\ [][NextSql]_vars

----------------------------------------------------------------------------
(* Vocabulary of the emitter's properties. *)

startsWith(s, prefix) == Len(s) >= Len(prefix) /\ SubSeq(s, 1, Len(prefix)) = prefix
endsWith(s, suffix) ==
  Len(s) >= Len(suffix) /\ SubSeq(s, Len(s) - Len(suffix) + 1, Len(s)) = suffix
includes(s, part) ==
  \E i \in 1..(Len(s) + 1 - Len(part)) : SubSeq(s, i, i + Len(part) - 1) = part

Written == pc = "written"

\* the changes the DDL forms give a statement to
Emits(c) == ~(c.type = "column.update" /\ c.source.nullable = c.target.nullable)

\* how the statement of a change begins, by the DDL forms
Opening(c) ==
  CASE c.type = "table.create" -> "CREATE TABLE " \o quoted(c.tableName) \o " ("
    [] c.type = "table.delete" -> "DROP TABLE " \o quoted(c.tableName)
    [] c.type = "column.create" ->
         "ALTER TABLE " \o quoted(c.column.tableName) \o " ADD " \o quoted(c.column.name)
    [] c.type = "column.update" ->
         "ALTER TABLE " \o quoted(c.source.tableName) \o " ALTER COLUMN "
           \o quoted(c.source.name)
    [] c.type = "column.delete" ->
         "ALTER TABLE " \o quoted(c.tableName) \o " DROP COLUMN " \o quoted(c.columnName)
    [] c.type = "constraint.create" ->
         "ALTER TABLE " \o quoted(c.constraint.tableName) \o " ADD CONSTRAINT "
           \o quoted(c.constraint.name)
    [] c.type = "constraint.delete" ->
         "ALTER TABLE " \o quoted(c.tableName) \o " DROP CONSTRAINT "
           \o quoted(c.constraintName)
    [] c.type = "index.create" ->
         "CREATE " \o (IF c.index.unique THEN "UNIQUE " ELSE "") \o "INDEX "
           \o quoted(c.index.name)
    [] c.type = "index.delete" -> "DROP INDEX " \o quoted(c.indexName)

(* C12 -- diffToSql gives each change zero or one statement, in the order  *)
(* of the change list: the statements are those of the changes other than  *)
(* column.update with equal nullable flags, one each, in list order.       *)
Thm_C12_SqlOrder ==
  Written =>
    LET emitting == SelectSeq(items, Emits)
    IN /\ Len(sql) = Len(emitting)
       /\ \A k \in 1..Len(emitting) : startsWith(sql[k], Opening(emitting[k]))

Wit_C12_SqlOrder ==
  /\ Written
  /\ Len(items) = 2 /\ Len(sql) = 1
  /\ items[1].type = "column.update" /\ ~Emits(items[1])
  /\ items[2].type = "index.delete"

(* C13 -- a column.update gives `ALTER COLUMN ... DROP NOT NULL` when the  *)
(* source is nullable and the target is not, `ALTER COLUMN ... SET NOT     *)
(* NULL` when the target is nullable and the source is not, and no         *)
(* statement when the nullable flags agree, whatever else differs.         *)
Thm_C13_NullabilityOnly ==
  (Written /\ Len(items) = 1 /\ items[1].type = "column.update") =>
    LET s == items[1].source
        t == items[1].target
        alter == "ALTER TABLE " \o quoted(s.tableName) \o " ALTER COLUMN " \o quoted(s.name)
    IN sql = IF s.nullable /\ ~t.nullable THEN <<alter \o " DROP NOT NULL;">>
             ELSE IF ~s.nullable /\ t.nullable THEN <<alter \o " SET NOT NULL;">>
             ELSE <<>>

Wit_C13_NullabilityOnly ==
  /\ Written /\ Len(items) = 1 /\ items[1].type = "column.update"
  /\ items[1].source.nullable = items[1].target.nullable
  /\ items[1].source.default # items[1].target.default
  /\ items[1].source.primary # items[1].target.primary
  /\ items[1].source.isArray # items[1].target.isArray
  /\ sql = <<>>

Wit_C13_DropNotNull ==
  /\ Written
  /\ items = <<ColumnUpdate(TestColumn(TRUE, None), TestColumn(FALSE, None))>>
  /\ sql = <<"ALTER TABLE \"Table1\" ALTER COLUMN \"Column1\" DROP NOT NULL;">>

\* the column clause the DDL forms give: ` NOT NULL` when not nullable, then
\* ` DEFAULT <default>` when the column has a default
ColumnClause(c) ==
  quoted(c.name) \o " " \o c.type
    \o (IF c.nullable THEN "" ELSE " NOT NULL")
    \o (IF c.default # None THEN " DEFAULT " \o c.default[1] ELSE "")

(* C14 -- in the statements of table.create and column.create each column  *)
(* carries ` NOT NULL` exactly when it is not nullable and then            *)
(* ` DEFAULT <default>` exactly when it has a default value, and           *)
(* table.create lists the columns in the order of the change.              *)
Claim_C14_ColumnClauses ==
  (Written /\ Len(items) = 1) =>
    /\ items[1].type = "column.create" =>
         sql = << "ALTER TABLE " \o quoted(items[1].column.tableName) \o " ADD "
                    \o ColumnClause(items[1].column) \o ";" >>
    /\ items[1].type = "table.create" =>
         sql = << "CREATE TABLE " \o quoted(items[1].tableName) \o " ("
                    \o join([i \in 1..Len(items[1].columns) |->
                               ColumnClause(items[1].columns[i])], ", ")
                    \o ");" >>

\* the same, restricted to columns whose default is not the empty string
Aux_C14_NonEmptyDefaults ==
  (/\ Written /\ Len(items) = 1
   /\ items[1].type = "column.create" => items[1].column.default # Some("")
   /\ items[1].type = "table.create" =>
        \A i \in 1..Len(items[1].columns) : items[1].columns[i].default # Some(""))
    => Claim_C14_ColumnClauses

\* b is a rearrangement of a in ascending order
IsSorted(a, b) ==
  /\ IsPermutation(a, b)
  /\ \A i, j \in 1..Len(b) : i < j => ~precedes(b[j], b[i])

\* `"a", "b", ...` over the names of `names` in ascending order
SortedNames(names) ==
  LET n == Len(names)
      sorted == CHOOSE b \in [1..n -> Range(names)] : IsSorted(names, b)
  IN join([i \in 1..n |-> quoted(sorted[i])], ", ")

(* C15 -- the statement of a PRIMARY_KEY, UNIQUE or FOREIGN_KEY            *)
(* constraint.create, and of an index.create with columnNames, lists the   *)
(* column names (and the FOREIGN_KEY reference column names) in ascending  *)
(* order, each double-quoted, joined by `, `, whatever the given order.    *)
Thm_C15_SortedColumnLists ==
  (Written /\ Len(items) = 1) =>
    /\ items[1].type = "constraint.create" =>
         LET c == items[1].constraint
             base == "ALTER TABLE " \o quoted(c.tableName) \o " ADD CONSTRAINT "
                       \o quoted(c.name)
         IN /\ c.type = PRIMARY_KEY =>
                 sql = <<base \o " PRIMARY KEY (" \o SortedNames(c.columnNames) \o ");">>
            /\ c.type = UNIQUE =>
                 sql = <<base \o " UNIQUE (" \o SortedNames(c.columnNames) \o ");">>
            /\ c.type = FOREIGN_KEY =>
                 /\ Len(sql) = 1
                 /\ startsWith(sql[1],
                      base \o " FOREIGN KEY (" \o SortedNames(c.columnNames)
                        \o ") REFERENCES " \o quoted(c.referenceTableName)
                        \o " (" \o SortedNames(c.referenceColumnNames) \o ")")
    /\ (items[1].type = "index.create" /\ items[1].index.columnNames # None) =>
         /\ Len(sql) = 1
         /\ startsWith(sql[1],
              Opening(items[1]) \o " ON " \o quoted(items[1].index.tableName)
                \o " (" \o SortedNames(items[1].index.columnNames[1]) \o ")")

Wit_C15_SortedColumnLists ==
  /\ Written /\ Len(items) = 1 /\ items[1].type = "constraint.create"
  /\ items[1].constraint.type = FOREIGN_KEY
  /\ items[1].constraint.columnNames = <<"c2", "c1">>
  /\ items[1].constraint.referenceColumnNames = <<"c2", "c1">>
  /\ startsWith(sql[1],
       "ALTER TABLE \"T1\" ADD CONSTRAINT \"N\" FOREIGN KEY (\"c1\", \"c2\") REFERENCES \"T2\" (\"c1\", \"c2\")")

Wit_C15_SortedIndexColumns ==
  /\ Written /\ Len(items) = 1 /\ items[1].type = "index.create"
  /\ items[1].index.columnNames = Some(<<"c2", "c1">>)
  /\ startsWith(sql[1], "CREATE INDEX \"IDX\" ON \"T1\" (\"c1\", \"c2\")")

Wit_C15_CodeUnitOrder ==
  /\ Written
  /\ items = <<ConstraintCreate(Unique("N", "T1", MixedNames))>>
  /\ sql = <<"ALTER TABLE \"T1\" ADD CONSTRAINT \"N\" UNIQUE (\"C3\", \"c10\", \"c2\");">>

(* C16 -- the statement of a FOREIGN_KEY constraint.create holds           *)
(* ` ON DELETE <action>` only when onDelete is set and ` ON UPDATE         *)
(* <action>` only when onUpdate is set, ON DELETE before ON UPDATE, right  *)
(* after the reference column list; with neither set the statement ends    *)
(* after that list.                                                        *)
Thm_C16_ForeignKeyActions ==
  (/\ Written /\ Len(items) = 1 /\ items[1].type = "constraint.create"
   /\ items[1].constraint.type = FOREIGN_KEY) =>
    LET c == items[1].constraint
        onDelete == IF c.onDelete # None THEN " ON DELETE " \o c.onDelete[1] ELSE ""
        onUpdate == IF c.onUpdate # None THEN " ON UPDATE " \o c.onUpdate[1] ELSE ""
    IN /\ Len(sql) = 1
       /\ endsWith(sql[1],
            " (" \o SortedNames(c.referenceColumnNames) \o ")" \o onDelete \o onUpdate \o ";")
       /\ includes(sql[1], " ON DELETE ") <=> c.onDelete # None
       /\ includes(sql[1], " ON UPDATE ") <=> c.onUpdate # None

Wit_C16_ForeignKeyActions ==
  /\ Written
  /\ items = <<ConstraintCreate(TestForeignKey(Some("CASCADE"), Some("NO ACTION")))>>
  /\ sql = <<"ALTER TABLE \"Table1\" ADD CONSTRAINT \"FK_1\" FOREIGN KEY (\"Column1\") REFERENCES \"Table2\" (\"Column2\") ON DELETE NO ACTION ON UPDATE CASCADE;">>

Wit_C16_NoActions ==
  /\ Written
  /\ items = <<ConstraintCreate(TestForeignKey(None, None))>>
  /\ sql = <<"ALTER TABLE \"Table1\" ADD CONSTRAINT \"FK_1\" FOREIGN KEY (\"Column1\") REFERENCES \"Table2\" (\"Column2\");">>

Claim_C18_IndexCreateTerminated ==
  Written =>
    /\ items = <<IndexCreate(TestIndex(FALSE))>> =>
         sql = <<"CREATE INDEX \"IDX_1\" ON \"Table1\" (\"Column1\");">>
    /\ items = <<IndexCreate(TestIndex(TRUE))>> =>
         sql = <<"CREATE UNIQUE INDEX \"IDX_1\" ON \"Table1\" (\"Column1\");">>
    /\ (Len(items) = 1 /\ items[1].type = "index.create") =>
         (Len(sql) = 1 /\ endsWith(sql[1], ";"))

----------------------------------------------------------------------------
(* getDynamicSchema: the passes over the registries.  Each pass takes the  *)
(* tables compiled so far and returns them with its additions.  A class is *)
(* named by its name; the metadata Reflect keeps for a class or a property *)
(* is what the last registration of that class or property defined.        *)

MANY_TO_ONE == "MANY_TO_ONE"
ONE_TO_ONE == "ONE_TO_ONE"
DatabaseRelationType == <<MANY_TO_ONE, ONE_TO_ONE>>

\* options.name || asSnakeCase(target.name)
tableNameOf(reg) ==
  IF truthy(reg.options.name) THEN reg.options.name[1] ELSE asSnakeCase(reg.target)

\* Reflect.getMetadata(SchemaKey.TableName, class)
getTableName(tableRegs, class) ==
  LET hits == {i \in 1..Len(tableRegs) : tableRegs[i].target = class}
  IN IF hits = {} THEN None ELSE Some(tableNameOf(tableRegs[MaxOf(hits)]))

\* the position of the item findByName returns, 0 when it returns undefined
findByName(list, name) ==
  IF truthy(name) /\ \E i \in 1..Len(list) : list[i].name = name[1]
    THEN CHOOSE i \in 1..Len(list) :
           /\ list[i].name = name[1]
           /\ \A j \in 1..(i - 1) : list[j].name # name[1]
    ELSE 0

orElse(o, fallback) == IF o = None THEN fallback ELSE o[1]

\* an optional boolean used as a condition
isTrue(o) == o # None /\ o[1]

\* the tables pass
compileTables(tbls, tableRegs) ==
  tbls \o [i \in 1..Len(tableRegs) |->
             [name |-> tableNameOf(tableRegs[i]), columns |-> <<>>,
              constraints |-> <<>>, indexes |-> <<>>]]

\* String(options.name ?? propertyName)
columnNameOf(reg) ==
  IF reg.options.name # None THEN reg.options.name[1] ELSE reg.propertyName

\* the default of an option set: a boolean, a Date (held as its ISO text),
\* null or a string
asDefaultValue(opts) ==
  IF opts.default = None THEN None
  ELSE LET value == opts.default[1]
       IN CASE value.kind = "boolean" -> Some(IF value.bool THEN "TRUE" ELSE "FALSE")
            [] value.kind = "Date" -> Some(value.text)
            [] value.kind = "null" -> None
            [] OTHER -> Some(value.text)

\* variant: a null default leaves the options as they were declared
withNullDefault_asDeclared(opts) == opts

\* options after `options.nullable = true` of a null default
withNullDefault(opts) ==
  IF opts.default # None /\ opts.default[1].kind = "null"
    THEN [opts EXCEPT !.nullable = Some(TRUE)]
    ELSE opts


\* one step of the columns pass
compileColumn(tbls, tableRegs, reg) ==
  LET ti == findByName(tbls, getTableName(tableRegs, reg.object))
  IN IF ti = 0 THEN tbls
     ELSE LET table == tbls[ti]
              columnName == columnNameOf(reg)
              opts == withNullDefault(reg.options)
              column == [name |-> columnName,
                         primary |-> Some(orElse(opts.primary, FALSE)),
                         tableName |-> table.name,
                         nullable |-> orElse(opts.nullable, FALSE),
                         default |-> asDefaultValue(opts),
                         values |-> opts.enum,
                         isArray |-> orElse(opts.array, FALSE),
                         type |-> IF truthy(opts.type) THEN opts.type[1]
                                                       ELSE "character varying"]
              unique == [type |-> UNIQUE,
                         name |-> asUniqueConstraintName(table.name, <<columnName>>),
                         tableName |-> table.name,
                         columnNames |-> <<columnName>>]
          IN [tbls EXCEPT ![ti] =
                [table EXCEPT
                   !.columns = Append(@, column),
                   !.constraints =
                     IF ~isTrue(opts.primary) /\ isTrue(opts.unique)
                       THEN Append(@, unique) ELSE @]]

RECURSIVE compileColumns(_, _, _)
compileColumns(tbls, tableRegs, columnRegs) ==
  IF columnRegs = <<>> THEN tbls
  ELSE compileColumns(compileColumn(tbls, tableRegs, Head(columnRegs)),
                      tableRegs, Tail(columnRegs))

\* variant: the primary-key pass without the test of columnNames.length
compilePrimaryKeys_unguarded(tbls) ==
  [i \in 1..Len(tbls) |->
     LET table == tbls[i]
         primaries == SelectSeq(table.columns, LAMBDA c : isTrue(c.primary))
         columnNames == [k \in 1..Len(primaries) |-> primaries[k].name]
     IN [table EXCEPT !.constraints =
           Append(@, [type |-> PRIMARY_KEY,
                      name |-> "PK_" \o table.name,
                      tableName |-> table.name,
                      columnNames |-> columnNames])]]

\* the primary-key pass: one constraint per table that has primary columns
compilePrimaryKeys(tbls) ==
  [i \in 1..Len(tbls) |->
     LET table == tbls[i]
         primaries == SelectSeq(table.columns, LAMBDA c : isTrue(c.primary))
         columnNames == [k \in 1..Len(primaries) |-> primaries[k].name]
     IN IF Len(columnNames) > 0
          THEN [table EXCEPT !.constraints =
                  Append(@, [type |-> PRIMARY_KEY,
                             name |-> asPrimaryKeyConstraintName(table.name, columnNames),
                             tableName |-> table.name,
                             columnNames |-> columnNames])]
          ELSE table]

\* one step of the pass over the indexes declared on a class
compileIndex(tbls, tableRegs, reg) ==
  LET ti == findByName(tbls, getTableName(tableRegs, reg.object))
  IN IF ti = 0 THEN tbls
     ELSE [tbls EXCEPT ![ti].indexes =
             Append(@, [name |-> IF truthy(reg.options.name) THEN reg.options.name[1] ELSE "",
                        tableName |-> tbls[ti].name,
                        unique |-> orElse(reg.options.unique, FALSE),
                        expression |-> reg.options.expression,
                        using |-> reg.options.using,
                        where |-> reg.options.where,
                        columnNames |-> reg.options.columns])]

RECURSIVE compileIndexes(_, _, _)
compileIndexes(tbls, tableRegs, indexRegs) ==
  IF indexRegs = <<>> THEN tbls
  ELSE compileIndexes(compileIndex(tbls, tableRegs, Head(indexRegs)),
                      tableRegs, Tail(indexRegs))

\* Reflect.getMetadata(SchemaKey.ColumnName, object, propertyName): defined by
\* the columns pass for the registrations whose table it found
getColumnName(tbls, tableRegs, columnRegs, object, propertyName) ==
  LET hits == {i \in 1..Len(columnRegs) :
                 /\ columnRegs[i].object = object
                 /\ columnRegs[i].propertyName = propertyName}
  IN IF hits = {} \/ findByName(tbls, getTableName(tableRegs, object)) = 0
       THEN None
       ELSE Some(columnNameOf(columnRegs[MaxOf(hits)]))

\* one step of the pass over the indexes declared on a property
compileColumnIndex(tbls, tableRegs, columnRegs, reg) ==
  LET ti == findByName(tbls, getTableName(tableRegs, reg.object))
  IN IF ti = 0 THEN tbls
     ELSE LET ci == findByName(tbls[ti].columns,
                               getColumnName(tbls, tableRegs, columnRegs,
                                             reg.object, reg.propertyName))
          IN IF ci = 0 THEN tbls
             ELSE [tbls EXCEPT ![ti].indexes =
                     Append(@, [name |-> IF truthy(reg.options.name)
                                           THEN reg.options.name[1] ELSE "",
                                tableName |-> tbls[ti].name,
                                unique |-> orElse(reg.options.unique, FALSE),
                                expression |-> reg.options.expression,
                                using |-> reg.options.using,
                                where |-> reg.options.where,
                                columnNames |-> Some(<<tbls[ti].columns[ci].name>>)])]

RECURSIVE compileColumnIndexes(_, _, _, _)
compileColumnIndexes(tbls, tableRegs, columnRegs, indexRegs) ==
  IF indexRegs = <<>> THEN tbls
  ELSE compileColumnIndexes(compileColumnIndex(tbls, tableRegs, columnRegs, Head(indexRegs)),
                            tableRegs, columnRegs, Tail(indexRegs))

\* one step of the relations pass
compileRelation(tbls, tableRegs, reg) ==
  LET child == findByName(tbls, getTableName(tableRegs, reg.object))
      parent == findByName(tbls, getTableName(tableRegs, reg.target))
  IN IF child = 0 \/ parent = 0 \/ reg.type # MANY_TO_ONE THEN tbls
     ELSE LET columnName == reg.propertyName \o "Id"
              found == \E i \in 1..Len(tbls[child].columns) :
                         tbls[child].columns[i].name = columnName
              column == [name |-> columnName,
                         primary |-> None,
                         tableName |-> tbls[child].name,
                         nullable |-> orElse(reg.options.nullable, FALSE),
                         default |-> None,
                         values |-> None,
                         isArray |-> FALSE,
                         type |-> "uuid"]
              withColumn == IF found THEN tbls
                            ELSE [tbls EXCEPT ![child].columns = Append(@, column)]
              primaries == SelectSeq(withColumn[parent].columns,
                                     LAMBDA c : isTrue(c.primary))
          IN [withColumn EXCEPT ![child].constraints =
                Append(@, [name |-> asForeignKeyConstraintName(tbls[child].name,
                                                                <<columnName>>),
                           tableName |-> tbls[child].name,
                           columnNames |-> <<columnName>>,
                           type |-> FOREIGN_KEY,
                           referenceTableName |-> tbls[parent].name,
                           referenceColumnNames |->
                             [k \in 1..Len(primaries) |-> primaries[k].name],
                           onUpdate |-> reg.options.onUpdate,
                           onDelete |-> reg.options.onDelete])]

RECURSIVE compileRelations(_, _, _)
compileRelations(tbls, tableRegs, relationRegs) ==
  IF relationRegs = <<>> THEN tbls
  ELSE compileRelations(compileRelation(tbls, tableRegs, Head(relationRegs)),
                        tableRegs, Tail(relationRegs))

\* the body of `if (!initialized) { ... }`: all passes, from the tables the
\* schema already holds
compile(tbls, reg) ==
  LET t1 == compileTables(tbls, reg.tables)
      t2 == compileColumns(t1, reg.tables, reg.columns)
      t3 == compilePrimaryKeys(t2)
      t4 == compileIndexes(t3, reg.tables, reg.indexes)
      t5 == compileColumnIndexes(t4, reg.tables, reg.columns, reg.columnIndexes)
  IN compileRelations(t5, reg.tables, reg.relationOptions)

\* the column registrations after the columns pass: a null default has set
\* options.nullable of the registrations whose table was found
afterCompile(tbls, reg) ==
  [reg EXCEPT !.columns =
     [i \in 1..Len(reg.columns) |->
        IF findByName(tbls, getTableName(reg.tables, reg.columns[i].object)) = 0
          THEN reg.columns[i]
          ELSE [reg.columns[i] EXCEPT !.options = withNullDefault(@)]]]

\* variant: the passes run on every call
getDynamicSchema_unguarded(state) ==
  LET tbls == compile(state.dynamicSchema.tables, state.registry)
  IN [initialized |-> TRUE,
      dynamicSchema |-> [state.dynamicSchema EXCEPT !.tables = tbls],
      registry |-> afterCompile(tbls, state.registry)]

\* the module state after a call of getDynamicSchema
getDynamicSchema(state) ==
  IF ~state.initialized
    THEN LET tbls == compile(state.dynamicSchema.tables, state.registry)
         IN [initialized |-> TRUE,
             dynamicSchema |-> [state.dynamicSchema EXCEPT !.tables = tbls],
             registry |-> afterCompile(tbls, state.registry)]
    ELSE state

----------------------------------------------------------------------------
(* The compiler's run. *)

\* largest number of decorators that run
MaxRegistrations == 4
\* largest number of calls of getDynamicSchema
MaxCalls == 2

NoColumnOptions ==
  [name |-> None, type |-> None, nullable |-> None, default |-> None,
   primary |-> None, unique |-> None, array |-> None, enum |-> None]

NoIndexOptions ==
  [name |-> None, unique |-> None, expression |-> None, using |-> None,
   where |-> None, columns |-> None]

BooleanDefault(b) == [kind |-> "boolean", bool |-> b, text |-> ""]
NullDefault == [kind |-> "null", bool |-> FALSE, text |-> ""]
StringDefault(text) == [kind |-> "string", bool |-> FALSE, text |-> text]

\* @Table() / @Table(name) on a class
TableDecls ==
  {[target |-> "AssetEntity", options |-> [name |-> n]] : n \in {None, Some("assets")}}
    \cup {[target |-> "UserEntity", options |-> [name |-> Some("users")]]}

\* @Column(...), @PrimaryColumn(), @PrimaryGeneratedColumn() on a property
ColumnDecls ==
  {[object |-> "AssetEntity", propertyName |-> "ownerId",
    options |-> [NoColumnOptions EXCEPT !.primary = Some(TRUE)]],
   [object |-> "AssetEntity", propertyName |-> "id",
    options |-> [NoColumnOptions EXCEPT !.type = Some("uuid"), !.primary = Some(TRUE),
                   !.default = Some(StringDefault("uuid_generate_v4()"))]],
   [object |-> "AssetEntity", propertyName |-> "deviceId",
    options |-> [NoColumnOptions EXCEPT !.unique = Some(TRUE)]],
   [object |-> "AssetEntity", propertyName |-> "userId",
    options |-> [NoColumnOptions EXCEPT !.name = Some("ownerId"), !.type = Some("uuid")]],
   [object |-> "AssetEntity", propertyName |-> "isVisible",
    options |-> [NoColumnOptions EXCEPT !.type = Some("boolean"),
                   !.default = Some(BooleanDefault(TRUE))]],
   [object |-> "AssetEntity", propertyName |-> "isFavorite",
    options |-> [NoColumnOptions EXCEPT !.type = Some("boolean"),
                   !.default = Some(BooleanDefault(FALSE))]],
   [object |-> "AssetEntity", propertyName |-> "deletedAt",
    options |-> [NoColumnOptions EXCEPT !.type = Some("timestamp with time zone"),
                   !.nullable = Some(FALSE), !.default = Some(NullDefault)]],
   [object |-> "UserEntity", propertyName |-> "id",
    options |-> [NoColumnOptions EXCEPT !.primary = Some(TRUE), !.unique = Some(TRUE)]]}

\* @Index(...) on a class
IndexDecls ==
  {[object |-> "AssetEntity",
    options |-> [NoIndexOptions EXCEPT !.name = Some("IDX_asset_owner"),
                   !.columns = Some(<<"ownerId", "id">>)]]}

\* @ColumnIndex() on a property
ColumnIndexDecls ==
  {[object |-> "AssetEntity", propertyName |-> "deviceId",
    options |-> [name |-> None, unique |-> Some(TRUE), expression |-> None,
                 using |-> None, where |-> None]],
   [object |-> "AssetEntity", propertyName |-> "ownerId",
    options |-> [name |-> None, unique |-> None, expression |-> None,
                 using |-> None, where |-> None]]}

\* @ManyToOne(...) / @OneToOne(...) on a property
RelationDecls ==
  {[object |-> "AssetEntity", propertyName |-> "owner",
    options |-> [onUpdate |-> None, onDelete |-> Some("CASCADE"), nullable |-> None],
    type |-> MANY_TO_ONE, target |-> "UserEntity"],
   [object |-> "AssetEntity", propertyName |-> "owner",
    options |-> [onUpdate |-> Some("CASCADE"), onDelete |-> Some("SET NULL"),
                 nullable |-> Some(TRUE)],
    type |-> MANY_TO_ONE, target |-> "AssetEntity"],
   [object |-> "UserEntity", propertyName |-> "profile",
    options |-> [onUpdate |-> None, onDelete |-> None, nullable |-> None],
    type |-> ONE_TO_ONE, target |-> "AssetEntity"]}

Registrations ==
  Len(registry.tables) + Len(registry.columns) + Len(registry.indexes)
    + Len(registry.columnIndexes) + Len(registry.relationOptions)

\* a decorator runs once: no registration of the list sits on the same class
\* (and property)
FreshClass(list, d) == \A i \in 1..Len(list) : list[i].target # d.target
FreshObject(list, d) == \A i \in 1..Len(list) : list[i].object # d.object
FreshProperty(list, d) ==
  \A i \in 1..Len(list) :
    ~(list[i].object = d.object /\ list[i].propertyName = d.propertyName)

\* the properties of a drawn class in the order of its body: the property
\* decorators of a class run in that order
ClassBody ==
  <<"ownerId", "id", "deviceId", "userId", "isVisible", "isFavorite", "deletedAt">>

PlaceInBody(propertyName) ==
  CHOOSE i \in 1..Len(ClassBody) : ClassBody[i] = propertyName

\* the decorated property comes after the properties of its class that
\* are already registered
BodyOrder(list, d) ==
  \A i \in 1..Len(list) :
    list[i].object = d.object =>
      PlaceInBody(list[i].propertyName) < PlaceInBody(d.propertyName)

InitCompiler ==
  /\ CompilerLoaded
  /\ LoaderIdle
  /\ source = Schema(<<>>)
  /\ target = Schema(<<>>)
  /\ options = KeepNothing
  /\ pc = "loaded"
  /\ items = <<>>
  /\ observed = <<>>
  /\ applied = 0
  /\ rediff = <<>>
  /\ sql = <<>>

\* tables.push({ target, options })
RegisterTable ==
  /\ Registrations < MaxRegistrations
  /\ \E d \in TableDecls :
       /\ FreshClass(registry.tables, d)
       /\ registry' = [registry EXCEPT !.tables = Append(@, d)]
  /\ UNCHANGED <<initialized, dynamicSchema, returned>>
  /\ UNCHANGED differVars
  /\ UNCHANGED loaderVars

\* columns.push({ object, propertyName, options })
RegisterColumn ==
  /\ Registrations < MaxRegistrations
  /\ \E d \in ColumnDecls :
       /\ FreshProperty(registry.columns, d)
       /\ BodyOrder(registry.columns, d)
       /\ registry' = [registry EXCEPT !.columns = Append(@, d)]
  /\ UNCHANGED <<initialized, dynamicSchema, returned>>
  /\ UNCHANGED differVars
  /\ UNCHANGED loaderVars

\* indexes.push({ object, options })
RegisterIndex ==
  /\ Registrations < MaxRegistrations
  /\ \E d \in IndexDecls :
       /\ FreshObject(registry.indexes, d)
       /\ registry' = [registry EXCEPT !.indexes = Append(@, d)]
  /\ UNCHANGED <<initialized, dynamicSchema, returned>>
  /\ UNCHANGED differVars
  /\ UNCHANGED loaderVars

\* columnIndexes.push({ object, propertyName, options })
RegisterColumnIndex ==
  /\ Registrations < MaxRegistrations
  /\ \E d \in ColumnIndexDecls :
       /\ FreshProperty(registry.columnIndexes, d)
       /\ registry' = [registry EXCEPT !.columnIndexes = Append(@, d)]
  /\ UNCHANGED <<initialized, dynamicSchema, returned>>
  /\ UNCHANGED differVars
  /\ UNCHANGED loaderVars

\* relationOptions.push({ object, propertyName, options, type, target })
RegisterRelation ==
  /\ Registrations < MaxRegistrations
  /\ \E d \in RelationDecls :
       /\ FreshProperty(registry.relationOptions, d)
       /\ registry' = [registry EXCEPT !.relationOptions = Append(@, d)]
  /\ UNCHANGED <<initialized, dynamicSchema, returned>>
  /\ UNCHANGED differVars
  /\ UNCHANGED loaderVars

\* a caller calls getDynamicSchema() and keeps what it returns
GetDynamicSchema ==
  /\ Len(returned) < MaxCalls
  /\ LET after == getDynamicSchema([initialized |-> initialized,
                                    dynamicSchema |-> dynamicSchema,
                                    registry |-> registry])
     IN /\ initialized' = after.initialized
        /\ dynamicSchema' = after.dynamicSchema
        /\ registry' = after.registry
        /\ returned' = Append(returned, after.dynamicSchema)
  /\ UNCHANGED differVars
  /\ UNCHANGED loaderVars

NextCompiler ==
  \/ RegisterTable
  \/ RegisterColumn
  \/ RegisterIndex
  \/ RegisterColumnIndex
  \/ RegisterRelation
  \/ GetDynamicSchema

CompilerSpec == InitCompiler /\ [][NextCompiler]_vars

----------------------------------------------------------------------------
(* Vocabulary of the compiler's properties. *)

\* the constraints of the compiled schema
CompiledConstraints ==
  UNION {Range(dynamicSchema.tables[i].constraints) : i \in 1..Len(dynamicSchema.tables)}

HexDigits == "0123456789abcdef"

isHex(s) ==
  \A i \in 1..Len(s) : \E k \in 1..Len(HexDigits) : charAt(s, i) = charAt(HexDigits, k)

\* the names of `names` in ascending order, joined by `_`
SortedKey(names) ==
  LET n == Len(names)
      sorted == CHOOSE b \in [1..n -> Range(names)] : IsSorted(names, b)
  IN join(sorted, "_")

KeyPrefix(c) ==
  CASE c.type = PRIMARY_KEY -> "PK_"
    [] c.type = UNIQUE -> "UQ_"
    [] c.type = FOREIGN_KEY -> "FK_"

(* C19 -- every PRIMARY_KEY, UNIQUE or FOREIGN_KEY constraint name the     *)
(* compiler synthesizes is 30 characters long: the 3-character prefix,     *)
(* then the first 27 hexadecimal characters of sha1(tableName, `_`, the    *)
(* column names in ascending order joined by `_`); the order in which the  *)
(* columns were given does not change it.                                  *)
Thm_C19_SynthesizedNames ==
  \A c \in CompiledConstraints :
    /\ Len(c.name) = 30
    /\ SubSeq(c.name, 1, 3) = KeyPrefix(c)
    /\ isHex(SubSeq(c.name, 4, 30))
    /\ SubSeq(c.name, 4, 30)
         = SubSeq(sha1(c.tableName \o "_" \o SortedKey(c.columnNames)), 1, 27)

Wit_C19_SynthesizedNames ==
  /\ initialized
  /\ \E c \in CompiledConstraints :
       /\ c.type = PRIMARY_KEY
       /\ c.tableName = "assets"
       /\ c.columnNames = <<"ownerId", "id">>
       /\ c.name = "PK_d93ea47b64e3ca71783abe3bf27"

Wit_C19_ForeignKeyName ==
  /\ initialized
  /\ \E c \in CompiledConstraints :
       /\ c.type = FOREIGN_KEY
       /\ c.referenceColumnNames = <<"id">>
       /\ startsWith(c.name, "FK_")
  /\ \E c \in CompiledConstraints : c.type = PRIMARY_KEY

\* how many objects of one kind the compiled schema holds
CompiledCount(kind(_)) ==
  Len(Flatten([i \in 1..Len(dynamicSchema.tables) |-> kind(dynamicSchema.tables[i])]))

columnsOf(t) == t.columns
indexesOf(t) == t.indexes
constraintsOf(t) == t.constraints

(* C20 -- every call of getDynamicSchema returns the schema the first call *)
(* compiled: decorators that run after the first call do not change it,    *)
(* and no registration is compiled into it more than once.                 *)
Thm_C20_CompiledOnce ==
  /\ ~initialized => (returned = <<>> /\ dynamicSchema.tables = <<>>)
  /\ \A k \in 1..Len(returned) : returned[k] = returned[1] /\ returned[k] = dynamicSchema
  /\ Len(dynamicSchema.tables) <= Len(registry.tables)
  /\ CompiledCount(columnsOf) <= Len(registry.columns) + Len(registry.relationOptions)
  /\ CompiledCount(indexesOf) <= Len(registry.indexes) + Len(registry.columnIndexes)
  /\ CompiledCount(constraintsOf)
       <= Len(registry.columns) + Len(registry.tables) + Len(registry.relationOptions)

Wit_C20_CompiledOnce ==
  /\ Len(returned) = 2
  /\ returned[1].tables # <<>>
  /\ compile(<<>>, registry) # returned[2].tables

Wit_C20_SecondCallSameRegistry ==
  /\ Len(returned) = 2
  /\ Registrations = MaxRegistrations
  /\ compile(<<>>, registry) = returned[2].tables
  /\ CompiledCount(constraintsOf) >= 2

----------------------------------------------------------------------------
(* A call of loadSchema: the database holds the rows of `catalog`; the     *)
(* five queries are issued together and complete one at a time in any      *)
(* order; the merge runs once Promise.all has resolved; a query that fails *)
(* rejects the call.                                                       *)

MaxRows == 2

TableRow(name) == [table_name |-> name]

ColumnRow(tableName, name, dataType, isNullable, default, udtName, arrayType) ==
  [table_name |-> tableName, column_name |-> name, data_type |-> dataType,
   column_default |-> default, is_nullable |-> isNullable,
   numeric_precision |-> None, numeric_scale |-> None,
   udt_name |-> udtName, array_type |-> arrayType]

IndexRow(name, tableName, unique, columnNames, expression, where) ==
  [index_name |-> name, table_name |-> tableName, unique |-> unique,
   column_names |-> columnNames, expression |-> expression, where |-> where]

ConstraintRow(type, name, tableName, columnNames, referenceTableName, referenceColumnNames, updateAction, deleteAction, expression) ==
  [constraint_type |-> type, constraint_name |-> name, table_name |-> tableName,
   column_names |-> columnNames, reference_table_name |-> referenceTableName,
   reference_column_names |-> referenceColumnNames,
   update_action |-> updateAction, delete_action |-> deleteAction,
   expression |-> expression]

EnumRow(name, values) == [name |-> name, values |-> values]

TableRows == <<TableRow("assets"), TableRow("users")>>

EnumRows == <<EnumRow("asset_status", <<"active", "trashed">>)>>

PlainRow == ColumnRow("assets", "deviceId", "character varying", "NO", None, "varchar", None)
ArrayRow == ColumnRow("assets", "tags", "ARRAY", "YES", Some("'{}'"), "_text", Some("text"))
ArrayRowNoElement == ColumnRow("assets", "boxes", "ARRAY", "NO", None, "_box", None)
EnumColumnRow == ColumnRow("assets", "status", "USER-DEFINED", "NO", Some("'active'"), "asset_status", None)
UnknownTypeRow == ColumnRow("assets", "location", "USER-DEFINED", "YES", None, "geography", None)
ViewColumnRow == ColumnRow("asset_view", "id", "uuid", "NO", None, "uuid", None)
NumericRow ==
  [ColumnRow("users", "quota", "numeric", "YES", Some("0"), "numeric", None)
     EXCEPT !.numeric_precision = Some(10), !.numeric_scale = Some(2)]

\* a column of a base table named like a property of Object.prototype
PrototypeNamedRow == ColumnRow("constructor", "id", "uuid", "NO", None, "uuid", None)

ColumnRowPool == {PlainRow, ArrayRow, ArrayRowNoElement, EnumColumnRow,
                  UnknownTypeRow, ViewColumnRow, NumericRow}
MixedColumnRows == {PlainRow, ArrayRow, UnknownTypeRow}

PlainIndexRow == IndexRow("IDX_asset_owner", "assets", FALSE, Some(<<"ownerId">>), None, None)
ExpressionIndexRow ==
  IndexRow("IDX_users_email", "users", TRUE, None, Some("lower(email)"),
           Some("(\"deletedAt\" IS NULL)"))
ViewIndexRow == IndexRow("IDX_view", "asset_view", FALSE, Some(<<"id">>), None, None)

IndexRowPool == {PlainIndexRow, ExpressionIndexRow, ViewIndexRow}

PrimaryKeyRow ==
  ConstraintRow("p", "PK_assets", "assets", Some(<<"id">>), None, None, None, None,
                "PRIMARY KEY (id)")
PrimaryKeyRowNoColumns ==
  ConstraintRow("p", "PK_users", "users", None, None, None, None, None, "PRIMARY KEY ()")
ForeignKeyRow(columnNames, referenceTableName, referenceColumnNames, up, de) ==
  ConstraintRow("f", "FK_asset_owner", "assets", columnNames, referenceTableName,
                referenceColumnNames, up, de,
                "FOREIGN KEY (\"ownerId\") REFERENCES users(id)")
GoodForeignKeyRows ==
  {ForeignKeyRow(Some(<<"ownerId">>), Some("users"), Some(<<"id">>), up, de) :
     up \in {Some("a"), Some("c")}, de \in {Some("n"), Some("x")}}
BadForeignKeyRows ==
  {ForeignKeyRow(None, Some("users"), Some(<<"id">>), Some("a"), Some("a")),
   ForeignKeyRow(Some(<<"ownerId">>), None, Some(<<"id">>), Some("a"), Some("a")),
   ForeignKeyRow(Some(<<"ownerId">>), Some("users"), None, Some("a"), Some("a"))}
UniqueRow ==
  ConstraintRow("u", "UQ_asset_device", "assets", Some(<<"deviceId", "ownerId">>),
                None, None, None, None, "UNIQUE (\"deviceId\", \"ownerId\")")
UniqueRowNoList ==
  ConstraintRow("u", "UQ_users_email", "users", None, None, None, None, None, "UNIQUE")
CheckRow ==
  ConstraintRow("c", "CHK_quota", "users", Some(<<"quota">>), None, None, None, None,
                "CHECK ((quota >= 0))")
ExclusionRow ==
  ConstraintRow("x", "EX_assets", "assets", Some(<<"id">>), None, None, None, None,
                "EXCLUDE USING gist (id WITH =)")
ViewConstraintRow ==
  ConstraintRow("c", "CHK_view", "asset_view", None, None, None, None, None,
                "CHECK ((id IS NOT NULL))")

ConstraintRowPool ==
  {PrimaryKeyRow, PrimaryKeyRowNoColumns, UniqueRow, UniqueRowNoList, CheckRow,
   ExclusionRow, ViewConstraintRow} \cup GoodForeignKeyRows \cup BadForeignKeyRows
MixedConstraintRows == {PrimaryKeyRow, UniqueRowNoList, CheckRow}

\* the lists of at most MaxRows rows of a pool
RowLists(pool) == UNION {[1..n -> pool] : n \in 0..MaxRows}
Singles(pool) == {<<r>> : r \in pool}

Catalog(requested, tables, columns, indexes, constraints, enums) ==
  [requested |-> requested, tables |-> tables, columns |-> columns,
   indexes |-> indexes, constraints |-> constraints, enums |-> enums]

\* the namespaces a call may meet: one list of rows varies, the others hold
\* one row each; a namespace that does not exist has no rows at all; a
\* table may be listed twice
Catalogs ==
  {Catalog(None, TableRows, cs, <<PlainIndexRow>>, <<PrimaryKeyRow>>, EnumRows) :
     cs \in Singles(ColumnRowPool) \cup RowLists(MixedColumnRows)}
  \cup
  {Catalog(None, TableRows, <<PlainRow>>, <<PlainIndexRow>>, ks, EnumRows) :
     ks \in Singles(ConstraintRowPool) \cup RowLists(MixedConstraintRows)}
  \cup
  {Catalog(None, TableRows, <<PlainRow>>, xs, <<PrimaryKeyRow>>, <<>>) :
     xs \in RowLists(IndexRowPool)}
  \cup
  {Catalog(requested, <<>>, <<>>, <<>>, <<>>, <<>>) :
     requested \in {None, Some(""), Some("missing")}}
  \cup
  {Catalog(Some("immich"), <<TableRow("assets"), TableRow("assets")>>, <<PlainRow>>,
           <<PlainIndexRow>>, <<PrimaryKeyRow>>, EnumRows)}
  \cup
  {Catalog(None, <<TableRow("assets"), TableRow("constructor")>>, cs,
           <<PlainIndexRow>>, <<PrimaryKeyRow>>, EnumRows) :
     cs \in {<<PlainRow>>, <<PlainRow, PrototypeNamedRow>>}}

InitLoad ==
  /\ CompilerLoaded
  /\ source = Schema(<<>>)
  /\ target = Schema(<<>>)
  /\ options = KeepNothing
  /\ pc = "loading"
  /\ items = <<>>
  /\ observed = <<>>
  /\ applied = 0
  /\ rediff = <<>>
  /\ sql = <<>>
  /\ catalog \in Catalogs
  /\ settled = <<>>
  /\ loaded = [outcome |-> "pending"]

\* the query has not completed and the call has not been rejected
Pending(query) ==
  /\ loaded.outcome = "pending"
  /\ \A k \in 1..Len(settled) : settled[k].query # query

\* a query completes: its promise fulfils with the rows the database holds
GetTables ==
  /\ Pending("getTables")
  /\ settled' = Append(settled, [query |-> "getTables", rows |-> catalog.tables])
  /\ UNCHANGED <<catalog, loaded>>
  /\ UNCHANGED differVars
  /\ UNCHANGED compilerVars

GetTableColumns ==
  /\ Pending("getTableColumns")
  /\ settled' = Append(settled, [query |-> "getTableColumns", rows |-> catalog.columns])
  /\ UNCHANGED <<catalog, loaded>>
  /\ UNCHANGED differVars
  /\ UNCHANGED compilerVars

GetTableIndexes ==
  /\ Pending("getTableIndexes")
  /\ settled' = Append(settled, [query |-> "getTableIndexes", rows |-> catalog.indexes])
  /\ UNCHANGED <<catalog, loaded>>
  /\ UNCHANGED differVars
  /\ UNCHANGED compilerVars

GetTableConstraints ==
  /\ Pending("getTableConstraints")
  /\ settled' = Append(settled, [query |-> "getTableConstraints", rows |-> catalog.constraints])
  /\ UNCHANGED <<catalog, loaded>>
  /\ UNCHANGED differVars
  /\ UNCHANGED compilerVars

GetUserDefinedEnums ==
  /\ Pending("getUserDefinedEnums")
  /\ settled' = Append(settled, [query |-> "getUserDefinedEnums", rows |-> catalog.enums])
  /\ UNCHANGED <<catalog, loaded>>
  /\ UNCHANGED differVars
  /\ UNCHANGED compilerVars

\* a query fails: Promise.all rejects and loadSchema, which catches nothing,
\* rejects with it
QueryFails ==
  /\ \E i \in 1..Len(Queries) : Pending(Queries[i])
  /\ loaded' = [outcome |-> "failed", error |-> "CatalogError"]
  /\ UNCHANGED <<catalog, settled>>
  /\ UNCHANGED differVars
  /\ UNCHANGED compilerVars

\* Promise.all has resolved: the rows are merged and the schema is returned
LoadSchema ==
  /\ loaded.outcome = "pending"
  /\ allSettled(settled)
  /\ loaded' = loadSchema(catalog.requested, promiseAll(settled))
  /\ UNCHANGED <<catalog, settled>>
  /\ UNCHANGED differVars
  /\ UNCHANGED compilerVars

NextLoad ==
  \/ GetTables
  \/ GetTableColumns
  \/ GetTableIndexes
  \/ GetTableConstraints
  \/ GetUserDefinedEnums
  \/ QueryFails
  \/ LoadSchema

LoadSpec == InitLoad /\ [][NextLoad]_vars

----------------------------------------------------------------------------
(* Properties of loadSchema.                                               *)

Returned == loaded.outcome = "returned"

LoadedTables == IF Returned THEN loaded.schema.tables ELSE <<>>

\* the tables the tables query lists
ListedTables == {catalog.tables[i].table_name : i \in 1..Len(catalog.tables)}

\* the loaded table of the given name (the first, were there several)
LoadedTable(name) ==
  LoadedTables[CHOOSE i \in 1..Len(LoadedTables) :
                 /\ LoadedTables[i].name = name
                 /\ \A k \in 1..(i - 1) : LoadedTables[k].name # name]

\* the column rows of listed tables
ColumnRowsOfListedTables ==
  {i \in 1..Len(catalog.columns) : catalog.columns[i].table_name \in ListedTables}

IsArrayRow(row) == row.data_type = "ARRAY" /\ truthy(row.array_type)

\* C21: for every catalog column row with data_type 'ARRAY' and a known
\* element type, the column that loadSchema puts into the table has the
\* element type as its type and isArray = true; every other column of the
\* returned schema has isArray = false.
Claim_C21_ArrayColumns ==
  Returned =>
    /\ \A i \in ColumnRowsOfListedTables :
         IsArrayRow(catalog.columns[i]) =>
           \E c \in Range(LoadedTable(catalog.columns[i].table_name).columns) :
             /\ c.name = catalog.columns[i].column_name
             /\ c.type = catalog.columns[i].array_type[1]
             /\ c.isArray = TRUE
    /\ \A t \in Range(LoadedTables) : \A c \in Range(t.columns) :
         c.isArray = TRUE =>
           \E i \in ColumnRowsOfListedTables :
             /\ IsArrayRow(catalog.columns[i])
             /\ catalog.columns[i].table_name = t.name
             /\ catalog.columns[i].column_name = c.name

\* the rows loadSchema cannot normalise
UnresolvedColumnRow(row) ==
  \/ /\ row.data_type = "USER-DEFINED"
     /\ \A k \in 1..Len(catalog.enums) : catalog.enums[k].name # row.udt_name
  \/ /\ row.data_type = "ARRAY"
     /\ row.array_type = None

\* the text holds a parenthesised, non-empty list
HasColumnList(text) ==
  \E i \in 1..Len(text) : \E j \in (i + 2)..Len(text) :
    /\ charAt(text, i) = "("
    /\ charAt(text, j) = ")"
    /\ \A k \in (i + 1)..(j - 1) : charAt(text, k) # ")"

IncompleteConstraintRow(row) ==
  \/ row.constraint_type = "p" /\ row.column_names = None
  \/ /\ row.constraint_type = "f"
     /\ \/ row.column_names = None
        \/ row.reference_table_name = None
        \/ row.reference_column_names = None
  \/ row.constraint_type = "u" /\ ~HasColumnList(row.expression)

\* the constraint types the data model has
ConstraintTypeOf(code) ==
  CASE code = "p" -> PRIMARY_KEY
    [] code = "f" -> FOREIGN_KEY
    [] code = "u" -> UNIQUE
    [] code = "c" -> CHECK
    [] OTHER -> "none"

NamesOf(list) == [i \in 1..Len(list) |-> list[i].name]

\* the rows of a list that belong to the table and are good
ColumnRowsKept(tableName) ==
  SelectSeq(catalog.columns,
            LAMBDA row : row.table_name = tableName /\ ~UnresolvedColumnRow(row))
IndexRowsKept(tableName) ==
  SelectSeq(catalog.indexes, LAMBDA row : row.table_name = tableName)
ConstraintRowsKept(tableName) ==
  SelectSeq(catalog.constraints,
            LAMBDA row : /\ row.table_name = tableName
                         /\ ConstraintTypeOf(row.constraint_type) # "none"
                         /\ ~IncompleteConstraintRow(row))

\* a failure of the call comes from a query, never from the merge
MergeNeverFails == loaded.outcome = "failed" => ~allSettled(settled)

\* no table or row of the catalog is named like a property of Object.prototype
PlainTableNames ==
  /\ ListedTables \cap ObjectPrototypeKeys = {}
  /\ \A i \in 1..Len(catalog.columns) : catalog.columns[i].table_name \notin ObjectPrototypeKeys
  /\ \A i \in 1..Len(catalog.indexes) : catalog.indexes[i].table_name \notin ObjectPrototypeKeys
  /\ \A i \in 1..Len(catalog.constraints) :
       catalog.constraints[i].table_name \notin ObjectPrototypeKeys

\* C22: loadSchema never fails because of a row it cannot normalise: those
\* rows (a column of an unknown user-defined type or of an array with no
\* element type, a primary key without column names, an incomplete foreign
\* key, a UNIQUE constraint without a parenthesised column list) are omitted
\* and every other table, column, index and constraint of the input rows
\* is present in the returned schema.
Claim_C22_EveryOtherRowPresent ==
  /\ MergeNeverFails
  /\ Returned =>
       /\ \A i \in 1..Len(catalog.tables) :
            \E t \in Range(LoadedTables) : t.name = catalog.tables[i].table_name
       /\ \A i \in 1..Len(catalog.columns) :
            ~UnresolvedColumnRow(catalog.columns[i]) <=>
              \E t \in Range(LoadedTables) : \E c \in Range(t.columns) :
                /\ c.tableName = catalog.columns[i].table_name
                /\ c.name = catalog.columns[i].column_name
       /\ \A i \in 1..Len(catalog.indexes) :
            \E t \in Range(LoadedTables) : \E x \in Range(t.indexes) :
              /\ x.tableName = catalog.indexes[i].table_name
              /\ x.name = catalog.indexes[i].index_name
       /\ \A i \in 1..Len(catalog.constraints) :
            ~IncompleteConstraintRow(catalog.constraints[i]) <=>
              \E t \in Range(LoadedTables) : \E k \in Range(t.constraints) :
                /\ k.tableName = catalog.constraints[i].table_name
                /\ k.name = catalog.constraints[i].constraint_name

\* Beside C22: when no table is named like a property of Object.prototype,
\* the merge never fails; the returned schema has each listed table once,
\* and a listed table holds, in the order of the rows, exactly its column
\* rows whose type resolves, all its index rows, and its constraint rows of
\* type p, f, u or c that are complete.  Rows of a table that is not listed
\* (a view's columns) and constraints of another type are omitted too.
Aux_C22_OnlyBadRowsDropped ==
  PlainTableNames =>
    /\ MergeNeverFails
    /\ Returned =>
         /\ NamesOf(LoadedTables)
              = Dedupe([i \in 1..Len(catalog.tables) |-> catalog.tables[i].table_name])
         /\ \A t \in Range(LoadedTables) :
              /\ NamesOf(t.columns)
                   = [i \in 1..Len(ColumnRowsKept(t.name)) |->
                        ColumnRowsKept(t.name)[i].column_name]
              /\ NamesOf(t.indexes)
                   = [i \in 1..Len(IndexRowsKept(t.name)) |->
                        IndexRowsKept(t.name)[i].index_name]
              /\ [i \in 1..Len(t.constraints) |->
                    <<t.constraints[i].type, t.constraints[i].name>>]
                   = [i \in 1..Len(ConstraintRowsKept(t.name)) |->
                        <<ConstraintTypeOf(ConstraintRowsKept(t.name)[i].constraint_type),
                          ConstraintRowsKept(t.name)[i].constraint_name>>]
              /\ \A c \in Range(t.columns) : c.tableName = t.name
              /\ \A x \in Range(t.indexes) : x.tableName = t.name
              /\ \A k \in Range(t.constraints) : k.tableName = t.name

\* the five catalog queries have no rows for the namespace
NoRows ==
  /\ catalog.tables = <<>>
  /\ catalog.columns = <<>>
  /\ catalog.indexes = <<>>
  /\ catalog.constraints = <<>>
  /\ catalog.enums = <<>>

\* C23: a call of loadSchema for a namespace that does not exist in the
\* database (each of the five catalog queries returns no rows for it) ends
\* in an error, never in a returned Schema value.
Claim_C23_MissingNamespaceFails ==
  (NoRows /\ loaded.outcome # "pending") => loaded.outcome = "failed"

\* Beside C23: what the call returns for such a namespace is the empty
\* schema of the requested name
Aux_C23_EmptySchemaReturned ==
  (NoRows /\ Returned) =>
    loaded.schema = [name |-> schemaNameOf(catalog.requested), tables |-> <<>>]

\* the rows of the catalog in the order loadSchema destructures them
RowSets ==
  <<catalog.tables, catalog.columns, catalog.indexes, catalog.constraints,
    catalog.enums>>

\* the call has ended after its merge started
Merged == Returned \/ (loaded.outcome = "failed" /\ loaded.error = "TypeError")

\* C24: the outcome of loadSchema is the same for every order in which the
\* five concurrently issued catalog queries complete: the merge starts only
\* after all five have completed, and its outcome is the one determined by
\* the five row sets alone.
Thm_C24_CompletionOrderIrrelevant ==
  Merged =>
    /\ Len(settled) = Len(Queries)
    /\ \A i \in 1..Len(Queries) : \E k \in 1..Len(settled) : settled[k].query = Queries[i]
    /\ loaded = loadSchema(catalog.requested, RowSets)

\* the enums arrive first and the tables last, and the schema holds the
\* enum column with its values
Wit_C24_ReverseCompletion ==
  /\ Returned
  /\ [k \in 1..Len(settled) |-> settled[k].query]
       = <<"getUserDefinedEnums", "getTableConstraints", "getTableIndexes",
           "getTableColumns", "getTables">>
  /\ catalog.columns = <<EnumColumnRow>>
  /\ \E c \in Range(LoadedTable("assets").columns) :
       c.type = "enum" /\ c.values = Some(<<"active", "trashed">>)

----------------------------------------------------------------------------
(* Properties of the compiled columns, keys and relations.                 *)

\* the compiled table of a class, as a list of no or one table
CompiledTableOf(class) ==
  LET ti == findByName(dynamicSchema.tables, getTableName(registry.tables, class))
  IN IF ti = 0 THEN <<>> ELSE <<dynamicSchema.tables[ti]>>

\* the compiled columns a column registration can have produced
CompiledColumnsOf(reg) ==
  {c \in UNION {Range(t.columns) : t \in Range(CompiledTableOf(reg.object))} :
     c.name = columnNameOf(reg)}

\* the declaration with a null default says nullable: false
NullDefaultDeclaredNotNull ==
  \A d \in ColumnDecls :
    d.options.default = Some(NullDefault) => d.options.nullable = Some(FALSE)

\* C25: a column declared with default null is compiled with nullable =
\* true and no default, even when it was declared nullable: false; a
\* boolean default is compiled to the string 'TRUE' or 'FALSE'.
Thm_C25_NullAndBooleanDefaults ==
  \A i \in 1..Len(registry.columns) :
    LET declared == registry.columns[i].options.default
    IN \A c \in CompiledColumnsOf(registry.columns[i]) :
         /\ declared = Some(NullDefault) => (c.nullable = TRUE /\ c.default = None)
         /\ declared = Some(BooleanDefault(TRUE)) => c.default = Some("TRUE")
         /\ declared = Some(BooleanDefault(FALSE)) => c.default = Some("FALSE")

\* the column deletedAt, declared { nullable: false, default: null }, is
\* compiled nullable and without a default
Wit_C25_NullDefault ==
  /\ NullDefaultDeclaredNotNull
  /\ \E i \in 1..Len(registry.columns) :
       /\ registry.columns[i].propertyName = "deletedAt"
       /\ registry.columns[i].options.default = Some(NullDefault)
       /\ \E c \in CompiledColumnsOf(registry.columns[i]) :
            c.nullable = TRUE /\ c.default = None

\* a default of true and a default of false are compiled in one table
Wit_C25_BooleanDefaults ==
  \E t \in Range(dynamicSchema.tables) :
    /\ \E c \in Range(t.columns) : c.name = "isVisible" /\ c.default = Some("TRUE")
    /\ \E c \in Range(t.columns) : c.name = "isFavorite" /\ c.default = Some("FALSE")

\* the schema is compiled and no decorator has run since
CompiledFromRegistry ==
  /\ initialized
  /\ compile(<<>>, registry) = dynamicSchema.tables

\* the column registrations whose class is the class of the table
DeclaredColumns(t) ==
  SelectSeq(registry.columns,
            LAMBDA r : getTableName(registry.tables, r.object) = Some(t.name))

ConstraintsOfType(t, type) == SelectSeq(t.constraints, LAMBDA k : k.type = type)

DeclaredPrimary(t) ==
  LET regs == SelectSeq(DeclaredColumns(t), LAMBDA r : r.options.primary = Some(TRUE))
  IN [i \in 1..Len(regs) |-> columnNameOf(regs[i])]

DeclaredUnique(t) ==
  LET regs == SelectSeq(DeclaredColumns(t),
                        LAMBDA r : /\ r.options.unique = Some(TRUE)
                                   /\ r.options.primary # Some(TRUE))
  IN [i \in 1..Len(regs) |-> <<columnNameOf(regs[i])>>]

\* C26: in the schema returned by getDynamicSchema, a table has a
\* PRIMARY_KEY constraint exactly when at least one of its declared columns
\* is primary, it has at most one, and the columnNames of that constraint
\* are exactly the table's primary columns; the UNIQUE constraints of the
\* table are exactly one on [column] for each column declared unique and
\* not primary.
Thm_C26_SynthesizedKeys ==
  CompiledFromRegistry =>
    \A t \in Range(dynamicSchema.tables) :
      LET keys == ConstraintsOfType(t, PRIMARY_KEY)
          uniques == ConstraintsOfType(t, UNIQUE)
      IN /\ Len(keys) <= 1
         /\ Len(keys) = 1 <=> DeclaredPrimary(t) # <<>>
         /\ Len(keys) = 1 => keys[1].columnNames = DeclaredPrimary(t)
         /\ [i \in 1..Len(uniques) |-> uniques[i].columnNames] = DeclaredUnique(t)

\* the table assets has the key over its two primary columns and the
\* UNIQUE constraint of deviceId
Wit_C26_SynthesizedKeys ==
  /\ CompiledFromRegistry
  /\ \E t \in Range(dynamicSchema.tables) :
       /\ Len(ConstraintsOfType(t, PRIMARY_KEY)) = 1
       /\ Len(ConstraintsOfType(t, PRIMARY_KEY)[1].columnNames) = 2
       /\ Len(ConstraintsOfType(t, UNIQUE)) = 1

\* the column id of users is declared primary and unique: the table has
\* the key and no UNIQUE constraint
Wit_C26_PrimaryNotUnique ==
  /\ CompiledFromRegistry
  /\ \E t \in Range(dynamicSchema.tables) :
       /\ t.name = "users"
       /\ DeclaredPrimary(t) = <<"id">>
       /\ Len(ConstraintsOfType(t, PRIMARY_KEY)) = 1
       /\ ConstraintsOfType(t, UNIQUE) = <<>>

\* a table without a primary column has no key
Wit_C26_NoKey ==
  /\ CompiledFromRegistry
  /\ \E t \in Range(dynamicSchema.tables) :
       /\ t.columns # <<>>
       /\ ConstraintsOfType(t, PRIMARY_KEY) = <<>>

\* the columns of a list of tables that have the given name
ColumnsNamed(tbls, name) ==
  SelectSeq(Flatten([i \in 1..Len(tbls) |-> tbls[i].columns]), LAMBDA c : c.name = name)

\* the foreign keys of a list of tables over the one given column
ForeignKeysOn(tbls, name) ==
  SelectSeq(Flatten([i \in 1..Len(tbls) |-> tbls[i].constraints]),
            LAMBDA k : k.type = FOREIGN_KEY /\ k.columnNames = <<name>>)

\* the declared columns of a list of tables that have the given name
DeclaredNamed(tbls, name) ==
  SelectSeq(Flatten([i \in 1..Len(tbls) |-> DeclaredColumns(tbls[i])]),
            LAMBDA r : columnNameOf(r) = name)

ManyToOneRelations ==
  SelectSeq(registry.relationOptions, LAMBDA r : r.type = MANY_TO_ONE)

\* what C27 says of one many-to-one relation
RelationCompiled(reg) ==
  LET child == CompiledTableOf(reg.object)
      parent == CompiledTableOf(reg.target)
      name == reg.propertyName \o "Id"
  IN IF child # <<>> /\ parent # <<>>
       THEN /\ Len(ColumnsNamed(child, name)) = 1
            /\ DeclaredNamed(child, name) = <<>> =>
                 /\ ColumnsNamed(child, name)[1].type = "uuid"
                 /\ Len(child[1].columns) = Len(DeclaredColumns(child[1])) + 1
            /\ DeclaredNamed(child, name) # <<>> =>
                 Len(child[1].columns) = Len(DeclaredColumns(child[1]))
            /\ Len(ForeignKeysOn(child, name)) = 1
            /\ ForeignKeysOn(child, name)[1].referenceTableName = parent[1].name
            /\ ForeignKeysOn(child, name)[1].referenceColumnNames
                 = DeclaredPrimary(parent[1])
            /\ ForeignKeysOn(child, name)[1].onUpdate = reg.options.onUpdate
            /\ ForeignKeysOn(child, name)[1].onDelete = reg.options.onDelete
     ELSE child # <<>> =>
            /\ Len(child[1].columns) = Len(DeclaredColumns(child[1]))
            /\ ForeignKeysOn(child, name) = <<>>

\* C27: for every many-to-one relation whose owning class and target class
\* are both registered tables, the compiled child table contains exactly
\* one column named propertyName + 'Id' (added as a uuid column only when
\* no column of that name was declared) and one FOREIGN_KEY constraint on
\* that column, which references the target table's primary-key columns
\* with the relation's onUpdate and onDelete; a relation whose target table
\* is not registered adds neither a column nor a constraint, and the call of
\* getDynamicSchema returns.
Claim_C27_ManyToOne ==
  CompiledFromRegistry =>
    /\ returned # <<>>
    /\ \A i \in 1..Len(ManyToOneRelations) : RelationCompiled(ManyToOneRelations[i])

\* declared column names are unique within each class
DeclaredNamesUnique ==
  \A i, j \in 1..Len(registry.columns) :
    (/\ i # j
     /\ registry.columns[i].object = registry.columns[j].object)
      => columnNameOf(registry.columns[i]) # columnNameOf(registry.columns[j])

\* Beside C27: the same, for the registries whose declared column names are
\* unique within each class
Aux_C27_ManyToOneUniqueNames ==
  (CompiledFromRegistry /\ DeclaredNamesUnique) =>
    /\ returned # <<>>
    /\ \A i \in 1..Len(ManyToOneRelations) : RelationCompiled(ManyToOneRelations[i])

\* no two places of the list hold the same name
DistinctNames(list) ==
  \A i, j \in 1..Len(list) : i # j => list[i].name # list[j].name

CompiledIndexes == Flatten([i \in 1..Len(dynamicSchema.tables) |-> dynamicSchema.tables[i].indexes])

CompiledConstraintList ==
  Flatten([i \in 1..Len(dynamicSchema.tables) |-> dynamicSchema.tables[i].constraints])

\* C28: in the schema returned by getDynamicSchema, for any set of
\* registered declarations, column names are unique within each table, and
\* index names and constraint names are unique within the schema.
Claim_C28_NamesUnique ==
  /\ \A t \in Range(dynamicSchema.tables) : DistinctNames(t.columns)
  /\ DistinctNames(CompiledIndexes)
  /\ DistinctNames(CompiledConstraintList)

\* Beside C28: the synthesized constraint names are unique when the
\* declared column names are
Aux_C28_ConstraintNamesUnique ==
  (CompiledFromRegistry /\ DeclaredNamesUnique) => DistinctNames(CompiledConstraintList)

----------------------------------------------------------------------------
(* The two producers of columns side by side.                              *)

CompiledColumns ==
  UNION {Range(dynamicSchema.tables[i].columns) : i \in 1..Len(dynamicSchema.tables)}

\* the columns loadSchema produces for the column rows of the pool
LoadedColumnPool ==
  {loadColumn(row, EnumRows)[1] :
     row \in {r \in ColumnRowPool : loadColumn(r, EnumRows) # None}}

\* the two columns describe the same column of the database
SameDatabaseColumn(c, l) ==
  /\ c.tableName = l.tableName
  /\ c.name = l.name
  /\ c.type = l.type
  /\ c.nullable = l.nullable
  /\ c.default = l.default
  /\ c.isArray = l.isArray

\* C29: a column produced by the metadata compiler and the column that
\* loadSchema produces for the same database column (same table, name,
\* type, nullability, default and array-ness, not a primary key) diff to no
\* change.
Claim_C29_ProducersAgree ==
  \A c \in CompiledColumns : \A l \in LoadedColumnPool :
    (SameDatabaseColumn(c, l) /\ ~isTrue(c.primary))
      => diffColumn(Some(c), Some(l)) = <<>>

\* Beside C29: the two columns differ in `primary` alone, which the
\* compiler sets to false and loadSchema leaves out
Aux_C29_OnlyPrimaryDiffers ==
  \A c \in CompiledColumns : \A l \in LoadedColumnPool :
    (SameDatabaseColumn(c, l) /\ ~isTrue(c.primary))
      => /\ c.primary = Some(FALSE)
         /\ l.primary = None
         /\ diffColumn(Some(c), Some(l))
              = <<[type |-> "column.update", source |-> c, target |-> l]>>
         /\ diffColumn(Some([c EXCEPT !.primary = None]), Some(l)) = <<>>

----------------------------------------------------------------------------
(* A constraint whose type changed. *)

\* pairs (source constraint, target constraint) of one table and one name
\* whose types differ
RetypedConstraintPairs ==
  UNION {{p \in Range(TableNamed(source, n).constraints)
                  \X Range(TableNamed(target, n).constraints) :
            p[1].name = p[2].name /\ p[1].type # p[2].type} : n \in InBoth}

\* the place of a type in the order of the passes of diffConstraints
PassOf(type) == CHOOSE k \in 1..Len(DatabaseConstraintType) : DatabaseConstraintType[k] = type

(* C30 -- when a table has a constraint named N in both schemas but of     *)
(* different types (UNIQUE in the target and PRIMARY_KEY in the source,    *)
(* say), the list returned by diff holds constraint.delete for N before    *)
(* constraint.create for N.                                                *)
Claim_C30_RetypedDeleteBeforeCreate ==
  pc # "start" =>
    \A p \in RetypedConstraintPairs :
      \E i, j \in Positions :
        /\ i < j
        /\ items[i] = ConstraintDelete(p[2])
        /\ items[j] = ConstraintCreate(p[1])

\* What the code does: the create comes out of the pass of the source's
\* type and the delete out of the pass of the target's type, so the two
\* stand in the order of the passes.
Aux_C30_OrderOfThePasses ==
  pc # "start" =>
    \A p \in RetypedConstraintPairs :
      ChangesOfConstraint(p[1].name)
        = IF PassOf(p[2].type) < PassOf(p[1].type)
            THEN <<ConstraintDelete(p[2]), ConstraintCreate(p[1])>>
            ELSE <<ConstraintCreate(p[1]), ConstraintDelete(p[2])>>

====
